---- MODULE Spec2Model ----
(***************************************************************************)
(* Model of the referral dashboard's client-side logic: the Referrals page *)
(* filter pipeline (useMemo `orders`), the Patients page document branch,  *)
(* the sort of the filtered view, and the stage-save / bulk-update         *)
(* handlers together with the Record Store tables they write.              *)
(*                                                                         *)
(* Encoding.  A nullable JavaScript value is a tuple: <<>> is              *)
(* null/undefined, <<v>> is the value v.  A JavaScript string on which the *)
(* code does substring search, case folding or collation is a sequence of  *)
(* one-character strings; a string that is only compared for equality is a *)
(* TLA+ string.  A Date is its epoch value in milliseconds.                *)
(***************************************************************************)
EXTENDS Integers, Sequences, FiniteSets, TLC

VARIABLES
    allOrders,        \* useQuery data of ['referrals_direct_all']: None until resolved
    searchParams,     \* URL query parameters, None for one that is absent
    activeFilters,    \* selected workflow-stage names (array)
    stoplightFilter,  \* stoplight selector
    advancedFilters,  \* AdvancedFilters object
    debouncedTerm,    \* debounced search term
    tz,               \* the browser's UTC offset in ms (local = UTC + tz)
    route,            \* the page the router shows
    selectedOrderIds, \* ids of the rows ticked for a bulk action
    selectedOrder,    \* the row a stage/archive modal was opened for
    showStageModal,
    showMassUpdateModal,
    toasts,           \* the notifications shown so far
    db,               \* Record Store: rows of the orders table
    regressions,      \* Record Store: rows inserted into regressions
    patient_notes,    \* Record Store: rows inserted into patient_notes
    invalidated,      \* query keys invalidated and not yet refetched
    stageSave,        \* the running handleStageSave of each page
    massUpdate,       \* the running handleMassStageUpdate
    detail,           \* PatientDetailPage: data of ['patient_full_details', id]
    showDetailStageModal,
    ops,              \* handler invocations so far
    kpiArgs,          \* Dashboard: the counts handed to calculateDelta
    kpiDelta,         \* Dashboard: what calculateDelta returned for them
    dateRange,        \* Dashboard: the {from, to} handed to useDashboardMetrics
    dashboardOrders,  \* Dashboard: data of ['dashboardOrders', from, to]
    trendData,        \* Trends: the weekly buckets
    loading,          \* Trends: fetchTrendData is running
    allData,          \* Patients: data of ['allDataForPatientsPage']
    patientsFilters,  \* Patients: archiveFilter, stoplightFilter, advancedFilters
    selectedPatientIds, \* Patients: ids of the rows ticked for a bulk action
    memo,             \* the cached value and dependencies of each list memo
    patientsTable,    \* Record Store: rows of the patients table
    fetching,         \* the fetch in flight of each page's query, if any
    fetchLog,         \* the fetches that have settled, oldest first
    requests,         \* the write requests sent to the Record Store, oldest first
    showMassDocUpdateModal,
    massDocUpdate,    \* the running handleMassDocUpdate
    showArchiveConfirm, \* Patients: the archive confirmation modal is open
    isArchiving,      \* Patients: handleBulkArchive is running
    bulkArchive,      \* the running handleBulkArchive
    docsState,        \* DocumentationRequirements: [docs, setDocs] = useState, status per key
    docToggle,        \* DocumentationRequirements: the running toggle
    showArchiveModal, \* Referrals: the archive/restore confirmation is open
    archiveConfirm,   \* the running handleArchiveConfirm
    orderToDelete,    \* Referrals: the row the delete confirmation is open for
    isDeleting,       \* Referrals: handleDeleteConfirm is running
    deleteConfirm,    \* the running handleDeleteConfirm
    docMutations      \* DocumentationRequirements: the mutations of the toggles, by key

filterVars == <<allOrders, searchParams, activeFilters,
                stoplightFilter, advancedFilters, debouncedTerm, tz, route>>

storeVars == <<db, regressions, patient_notes>>

handlerVars == <<selectedOrder, showStageModal, showMassUpdateModal, toasts,
                 invalidated, stageSave, massUpdate, detail,
                 showDetailStageModal, ops>>

kpiVars == <<kpiArgs, kpiDelta>>

\* the state of the other pages and components
dashboardVars == <<dateRange, dashboardOrders>>

trendVars == <<trendData, loading>>

patientsVars == <<allData, patientsFilters, selectedPatientIds>>

queryVars == <<patientsTable, fetching, fetchLog>>

bulkVars == <<showMassDocUpdateModal, massDocUpdate, showArchiveConfirm,
              isArchiving, bulkArchive>>

docVars == <<docsState, docToggle>>

confirmVars == <<showArchiveModal, archiveConfirm, orderToDelete, isDeleting,
                 deleteConfirm>>

raceVars == <<docMutations>>

\* what the handlers of the pages modelled first leave alone, but for the
\* log of requests
quietVars == <<kpiVars, dashboardVars, trendVars, patientsVars, memo, queryVars,
               bulkVars, docVars, confirmVars, raceVars>>

restVars == <<quietVars, requests>>

vars == <<filterVars, selectedOrderIds, storeVars, handlerVars, restVars>>

----------------------------------------------------------------------------
(* Bounds of the model. *)

MaxOrders == 1
MaxSortOrders == 3
MaxStageOrders == 2
MaxOps == 1
MaxActiveFilters == 1

----------------------------------------------------------------------------
(* Nullable values. *)

None == <<>>
Some(v) == <<v>>

Range(seq) == {seq[i] : i \in DOMAIN seq}

\* Truthiness of a nullable string: null, undefined and '' are falsy
Truthy(x) == x # None /\ x[1] # <<>>

----------------------------------------------------------------------------
(* Strings. *)

\* String.prototype.toLowerCase, letter by letter
LowerTable ==
    ("A" :> "a") @@ ("B" :> "b") @@ ("C" :> "c") @@ ("D" :> "d") @@
    ("E" :> "e") @@ ("F" :> "f") @@ ("G" :> "g") @@ ("H" :> "h") @@
    ("I" :> "i") @@ ("J" :> "j") @@ ("K" :> "k") @@ ("L" :> "l") @@
    ("M" :> "m") @@ ("N" :> "n") @@ ("O" :> "o") @@ ("P" :> "p") @@
    ("Q" :> "q") @@ ("R" :> "r") @@ ("S" :> "s") @@ ("T" :> "t") @@
    ("U" :> "u") @@ ("V" :> "v") @@ ("W" :> "w") @@ ("X" :> "x") @@
    ("Y" :> "y") @@ ("Z" :> "z")

\* the place in the alphabet of each letter, in either case
PlaceTable ==
    ("a" :> 1) @@ ("b" :> 2) @@ ("c" :> 3) @@ ("d" :> 4) @@
    ("e" :> 5) @@ ("f" :> 6) @@ ("g" :> 7) @@ ("h" :> 8) @@
    ("i" :> 9) @@ ("j" :> 10) @@ ("k" :> 11) @@ ("l" :> 12) @@
    ("m" :> 13) @@ ("n" :> 14) @@ ("o" :> 15) @@ ("p" :> 16) @@
    ("q" :> 17) @@ ("r" :> 18) @@ ("s" :> 19) @@ ("t" :> 20) @@
    ("u" :> 21) @@ ("v" :> 22) @@ ("w" :> 23) @@ ("x" :> 24) @@
    ("y" :> 25) @@ ("z" :> 26) @@ ("A" :> 1) @@ ("B" :> 2) @@
    ("C" :> 3) @@ ("D" :> 4) @@ ("E" :> 5) @@ ("F" :> 6) @@
    ("G" :> 7) @@ ("H" :> 8) @@ ("I" :> 9) @@ ("J" :> 10) @@
    ("K" :> 11) @@ ("L" :> 12) @@ ("M" :> 13) @@ ("N" :> 14) @@
    ("O" :> 15) @@ ("P" :> 16) @@ ("Q" :> 17) @@ ("R" :> 18) @@
    ("S" :> 19) @@ ("T" :> 20) @@ ("U" :> 21) @@ ("V" :> 22) @@
    ("W" :> 23) @@ ("X" :> 24) @@ ("Y" :> 25) @@ ("Z" :> 26)

IsUpper(c) == c \in DOMAIN LowerTable

LowerChar(c) ==
    IF IsUpper(c) THEN LowerTable[c] ELSE c

\* String.prototype.toLowerCase
toLowerCase(s) == [i \in DOMAIN s |-> LowerChar(s[i])]

\* String.prototype.includes
includes(s, sub) ==
    \E i \in 0..(Len(s) - Len(sub)) : SubSeq(s, i + 1, i + Len(sub)) = sub

\* String.prototype.trim (the space is the only blank of the alphabet)
RECURSIVE trimStart(_)
trimStart(s) == IF s # <<>> /\ Head(s) = " " THEN trimStart(Tail(s)) ELSE s

RECURSIVE trimEnd(_)
trimEnd(s) ==
    IF s # <<>> /\ s[Len(s)] = " " THEN trimEnd(SubSeq(s, 1, Len(s) - 1)) ELSE s

trim(s) == trimEnd(trimStart(s))

\* String.prototype.split(','): the pieces between the commas, in order
RECURSIVE split(_)
split(s) ==
    IF \E i \in DOMAIN s : s[i] = ","
    THEN LET i == CHOOSE k \in DOMAIN s :
                      s[k] = "," /\ \A j \in 1..(k - 1) : s[j] # ","
         IN  <<SubSeq(s, 1, i - 1)>> \o split(SubSeq(s, i + 1, Len(s)))
    ELSE <<s>>

\* Collation of String.prototype.localeCompare with no options: letters are
\* compared without regard to case first (a blank sorts before every letter); two
\* strings with the same letters are then ordered by case, lower case first.
DigitTable ==
    ("0" :> 1) @@ ("1" :> 2) @@ ("2" :> 3) @@ ("3" :> 4) @@ ("4" :> 5) @@
    ("5" :> 6) @@ ("6" :> 7) @@ ("7" :> 8) @@ ("8" :> 9) @@ ("9" :> 10)

DigitCount == Cardinality(DOMAIN DigitTable)

\* digits sort before letters, every other character before the digits
PrimaryWeight(c) ==
    IF c \in DOMAIN PlaceTable THEN DigitCount + PlaceTable[c]
    ELSE IF c \in DOMAIN DigitTable THEN DigitTable[c]
    ELSE 0

TertiaryWeight(c) == IF IsUpper(c) THEN 1 ELSE 0

\* comparison of two weight sequences: the first difference decides, then
\* the length
compareWeights(wa, wb) ==
    LET n == IF Len(wa) < Len(wb) THEN Len(wa) ELSE Len(wb)
        diffs == {i \in 1..n : wa[i] # wb[i]}
    IN  IF diffs # {}
        THEN LET i == CHOOSE k \in diffs : \A j \in diffs : k <= j
             IN  IF wa[i] < wb[i] THEN -1 ELSE 1
        ELSE IF Len(wa) < Len(wb) THEN -1
        ELSE IF Len(wa) > Len(wb) THEN 1
        ELSE 0

localeCompare(a, b) ==
    LET p == compareWeights([i \in DOMAIN a |-> PrimaryWeight(a[i])],
                            [i \in DOMAIN b |-> PrimaryWeight(b[i])])
    IN  IF p # 0 THEN p
        ELSE compareWeights([i \in DOMAIN a |-> TertiaryWeight(a[i])],
                            [i \in DOMAIN b |-> TertiaryWeight(b[i])])

----------------------------------------------------------------------------
(* Dates. *)

MsPerDay == 24 * 60 * 60 * 1000
MsPerHour == 60 * 60 * 1000

\* new Date('YYYY-MM-DD'): a date-only string is parsed as UTC midnight of day d
DateOfDay(d) == d * MsPerDay

\* new Date(x).toISOString().split('T')[0]: the UTC calendar day of an instant
toISODate(t) == t \div MsPerDay

\* Date.prototype.setHours(23, 59, 59, 999): the last millisecond of the LOCAL
\* calendar day that holds the instant t, in a zone whose offset from UTC is off
setHoursEndOfDay(t, off) ==
    ((t + off) \div MsPerDay) * MsPerDay + (MsPerDay - 1) - off

----------------------------------------------------------------------------
(* Workflow stages. *)

ReferralReceived ==
    <<"R","e","f","e","r","r","a","l"," ","R","e","c","e","i","v","e","d">>
PatientIntake ==
    <<"P","a","t","i","e","n","t"," ","I","n","t","a","k","e"," ","&"," ",
      "D","e","m","o","g","r","a","p","h","i","c","s">>
DocumentationVerification ==
    <<"D","o","c","u","m","e","n","t","a","t","i","o","n"," ",
      "V","e","r","i","f","i","c","a","t","i","o","n">>
Preauthorization ==
    <<"P","r","e","a","u","t","h","o","r","i","z","a","t","i","o","n"," ",
      "(","P","A","R",")">>

\* The stage chips of the filter bar
filterOptions ==
    <<ReferralReceived, PatientIntake, DocumentationVerification, Preauthorization>>

\* The canonical stage order (schemas/workflow.json, mapped to its stage names)
workflowStages == filterOptions

----------------------------------------------------------------------------
(* The Referrals page: derived filter inputs. *)

\* searchParams.get('account')
accountFilter == searchParams.account

\* archive_status, defaulting to 'active' when absent or unrecognised
archiveFilter ==
    IF searchParams.archive_status # None
       /\ searchParams.archive_status[1] \in {"active", "archived", "all"}
    THEN searchParams.archive_status[1]
    ELSE "active"

EmptyAdvanced ==
    [firstName |-> None, lastName |-> None, dob |-> None, insurance |-> None,
     dateStart |-> None, dateEnd |-> None, workflowStage |-> None,
     docFilterKey |-> None, docFilterStatus |-> None,
     payer_region |-> None, rep_name |-> None]

\* a URL without query parameters
NoParams ==
    [account |-> None, archive_status |-> None, insurance |-> None,
     dateStart |-> None, dateEnd |-> None, region |-> None, rep |-> None,
     stoplight_status |-> None]

\* useEffect([searchParams]): newFilters is not empty
hasNewFilters(params) ==
    \/ Truthy(params.insurance) \/ params.dateStart # None
    \/ params.dateEnd # None \/ params.region # None \/ params.rep # None

\* useEffect([searchParams]): the parameters that are present are merged into
\* advancedFilters and a present stoplight_status replaces stoplightFilter
searchParamsEffect(params, adv, stoplight) ==
    [advancedFilters |->
         [adv EXCEPT
             !.insurance = IF Truthy(params.insurance) THEN params.insurance ELSE @,
             !.dateStart = IF params.dateStart # None THEN params.dateStart ELSE @,
             !.dateEnd = IF params.dateEnd # None THEN params.dateEnd ELSE @,
             !.payer_region = IF params.region # None THEN params.region ELSE @,
             !.rep_name = IF params.rep # None THEN params.rep ELSE @],
     stoplightFilter |->
         IF params.stoplight_status # None THEN params.stoplight_status
         ELSE stoplight]

\* Object.values(advancedFilters).some(v => v)
isAdvancedFilterActive(adv) ==
    \/ Truthy(adv.firstName) \/ Truthy(adv.lastName) \/ Truthy(adv.insurance)
    \/ Truthy(adv.workflowStage)
    \/ adv.dob # None \/ adv.dateStart # None \/ adv.dateEnd # None
    \/ adv.docFilterKey # None \/ adv.docFilterStatus # None
    \/ adv.payer_region # None \/ adv.rep_name # None

----------------------------------------------------------------------------
(* The Referrals page: one predicate per filter step of the `orders` memo. *)

\* the archive step taking a null flag for an archived referral
archiveKeepNullArchived(order, mode) ==
    IF mode = "active" THEN order.is_archived = Some(FALSE)
    ELSE IF mode = "archived" THEN order.is_archived # Some(FALSE)
    ELSE TRUE

\* allOrders.filter by archive mode
archiveKeep(order, mode) ==
    IF mode = "active" THEN order.is_archived # Some(TRUE)
    ELSE IF mode = "archived" THEN order.is_archived = Some(TRUE)
    ELSE TRUE

\* order.patients?.primary_insurance === accountFilter
accountKeep(order, account) ==
    order.patients # None /\ order.patients[1].primary_insurance = account

\* order.workflow_stage && activeFilters.includes(order.workflow_stage)
stageKeep(order, active) ==
    /\ Truthy(order.workflow_stage)
    /\ \E i \in DOMAIN active : active[i] = order.workflow_stage[1]

\* order.stoplight_status === stoplightFilter
stoplightKeep(order, stoplight) == order.stoplight_status = stoplight

\* patient.name?.toLowerCase().includes(fragment.toLowerCase())
nameIncludes(patient, fragment) ==
    patient.name # None
    /\ includes(toLowerCase(patient.name[1]), toLowerCase(fragment))

\* the dob branch: skipped when the patient has no dob
dobKeep(patient, dob) ==
    IF dob # None /\ patient.dob # None
    THEN toISODate(patient.dob[1]) = dob[1]
    ELSE TRUE

\* the insurance branch: membership in the comma-separated list
insuranceList(insurance) ==
    LET parts == split(insurance)
    IN  [i \in DOMAIN parts |-> trim(toLowerCase(parts[i]))]

insuranceKeep(patient, insurance) ==
    IF Truthy(insurance)
    THEN /\ Truthy(patient.primary_insurance)
         /\ \E i \in DOMAIN insuranceList(insurance[1]) :
                insuranceList(insurance[1])[i]
                    = toLowerCase(patient.primary_insurance[1])
    ELSE TRUE

\* the dateStart branch: skipped when the referral has no referral_date
dateStartKeep(order, dateStart) ==
    IF dateStart # None /\ order.referral_date # None
    THEN ~(order.referral_date[1] < DateOfDay(dateStart[1]))
    ELSE TRUE

\* the dateEnd branch: endDate = new Date(dateEnd); endDate.setHours(23,59,59,999)
dateEndKeep(order, dateEnd, off) ==
    IF dateEnd # None /\ order.referral_date # None
    THEN LET endDate == setHoursEndOfDay(DateOfDay(dateEnd[1]), off)
         IN  ~(order.referral_date[1] > endDate)
    ELSE TRUE

\* order.patients?.required_documents?.includes(docFilterKey)
isRequired(patient, key) ==
    /\ patient # None
    /\ patient[1].required_documents # None
    /\ \E i \in DOMAIN patient[1].required_documents[1] :
           patient[1].required_documents[1][i] = key

\* order.document_status?.[docFilterKey] === 'Complete'
isComplete(order, key) ==
    /\ order.document_status # None
    /\ key \in DOMAIN order.document_status[1]
    /\ order.document_status[1][key] = "Complete"

\* the branch with `Missing` not looking at the required list
docStatusKeepMissingAny(required, complete, status) ==
    /\ ~(status = "Complete" /\ ~complete)
    /\ ~(status = "Missing" /\ complete)
    /\ ~(status = "Not Required" /\ required)

\* the branch without its `Not Required` line
docStatusKeepNoNotRequired(required, complete, status) ==
    /\ ~(status = "Complete" /\ ~complete)
    /\ ~(status = "Missing" /\ (~required \/ complete))

\* the body of the docFilterKey/docFilterStatus branch
docStatusKeep(required, complete, status) ==
    /\ ~(status = "Complete" /\ ~complete)
    /\ ~(status = "Missing" /\ (~required \/ complete))
    /\ ~(status = "Not Required" /\ required)

\* the branch on the Referrals page
docFilterKeep(order, key, status) ==
    IF key # None /\ status # None
    THEN docStatusKeep(isRequired(order.patients, key[1]),
                       isComplete(order, key[1]), status[1])
    ELSE TRUE

\* the branch on the Patients page, applied to one order of the patient
patientsDocFilterKeep(patient, order, key, status) ==
    IF key # None /\ status # None
    THEN docStatusKeep(isRequired(Some(patient), key[1]),
                       isComplete(order, key[1]), status[1])
    ELSE TRUE

\* the callback of the advanced filter step
advancedKeep(order, adv, off) ==
    /\ order.patients # None
    /\ (Truthy(adv.firstName) => nameIncludes(order.patients[1], adv.firstName[1]))
    /\ (Truthy(adv.lastName) => nameIncludes(order.patients[1], adv.lastName[1]))
    /\ dobKeep(order.patients[1], adv.dob)
    /\ insuranceKeep(order.patients[1], adv.insurance)
    /\ dateStartKeep(order, adv.dateStart)
    /\ dateEndKeep(order, adv.dateEnd, off)
    /\ (Truthy(adv.workflowStage) => order.workflow_stage = adv.workflowStage)
    /\ docFilterKeep(order, adv.docFilterKey, adv.docFilterStatus)
    /\ (adv.payer_region # None => order.payer_region = adv.payer_region)
    /\ (adv.rep_name # None => order.rep_name = adv.rep_name)

\* the callback of the search step
searchKeep(order, term) ==
    LET lowercasedTerm == toLowerCase(term)
    IN  \/ /\ order.patients # None
           /\ order.patients[1].name # None
           /\ includes(toLowerCase(order.patients[1].name[1]), lowercasedTerm)
        \/ /\ order.patients # None
           /\ order.patients[1].primary_insurance # None
           /\ includes(toLowerCase(order.patients[1].primary_insurance[1]),
                       lowercasedTerm)
        \/ /\ order.workflow_stage # None
           /\ includes(toLowerCase(order.workflow_stage[1]), lowercasedTerm)

\* a.patients?.name || ''
sortKey(order) ==
    IF order.patients # None /\ Truthy(order.patients[1].name)
    THEN order.patients[1].name[1]
    ELSE <<>>

\* the comparator with its operands exchanged
compareOrdersDescending(a, b) == localeCompare(sortKey(b), sortKey(a))

\* the comparator given to sort
compareOrders(a, b) == localeCompare(sortKey(a), sortKey(b))

\* a sort that puts an element before the earlier elements it compares
\* equal to
sortRankLaterFirst(seq, i) ==
    1 + Cardinality({j \in DOMAIN seq :
            \/ compareOrders(seq[j], seq[i]) < 0
            \/ compareOrders(seq[j], seq[i]) = 0 /\ j > i})

\* Array.prototype.sort is a stable sort by the comparator: an element's place
\* in the result is one more than the number of elements that compare less
\* than it or compare equal to it and stand before it.
sortRank(seq, i) ==
    1 + Cardinality({j \in DOMAIN seq :
            \/ compareOrders(seq[j], seq[i]) < 0
            \/ compareOrders(seq[j], seq[i]) = 0 /\ j < i})

sort(seq) ==
    LET rank == [i \in DOMAIN seq |-> sortRank(seq, i)]
    IN  [r \in DOMAIN seq |-> seq[CHOOSE i \in DOMAIN seq : rank[i] = r]]

\* the steps of the memo before the sort
filterOrders(all, mode, account, active, stoplight, adv, term, off) ==
    LET f1 == SelectSeq(all, LAMBDA o : archiveKeep(o, mode))
        f2 == IF Truthy(account)
              THEN SelectSeq(f1, LAMBDA o : accountKeep(o, account)) ELSE f1
        f3 == IF Len(active) > 0
              THEN SelectSeq(f2, LAMBDA o : stageKeep(o, active)) ELSE f2
        f4 == IF stoplight # None
              THEN SelectSeq(f3, LAMBDA o : stoplightKeep(o, stoplight)) ELSE f3
        f5 == IF isAdvancedFilterActive(adv)
              THEN SelectSeq(f4, LAMBDA o : advancedKeep(o, adv, off)) ELSE f4
        f6 == IF Truthy(term)
              THEN SelectSeq(f5, LAMBDA o : searchKeep(o, term[1])) ELSE f5
    IN  f6

\* const orders = useMemo(...)
orders ==
    IF allOrders = None THEN <<>>
    ELSE sort(filterOrders(allOrders[1], archiveFilter, accountFilter,
                           activeFilters, stoplightFilter, advancedFilters,
                           debouncedTerm, tz))

----------------------------------------------------------------------------
(* Inputs: the referrals the Record Store may return and the filter values *)
(* the user may enter.                                                     *)

Patient(pid, name, insurance, dob, required) ==
    [id |-> pid, name |-> name, primary_insurance |-> insurance, dob |-> dob,
     required_documents |-> required]

Order(oid, archived, patient, stage, stoplight, date, docs, region, rep) ==
    [id |-> oid, is_archived |-> archived, created_at |-> DateOfDay(oid),
     patient_id |-> IF patient = None THEN None ELSE Some(patient[1].id),
     patients |-> patient, workflow_stage |-> stage,
     stoplight_status |-> stoplight, referral_date |-> date,
     document_status |-> docs, payer_region |-> region, rep_name |-> rep]

PatientAl ==
    Patient("p1", Some(<<"a","l">>), Some(<<"A","e">>), Some(DateOfDay(1)),
            Some(<<"FACE", "CMN">>))
PatientAlUpper ==
    Patient("p2", Some(<<"A","l">>), Some(<<"B","c">>), None, None)
PatientBo ==
    Patient("p3", Some(<<"b","o">>), None, Some(DateOfDay(2) + 5 * MsPerHour),
            Some(<<>>))
PatientNoName ==
    Patient("p4", None, Some(<<"a","e">>), Some(DateOfDay(1)), Some(<<"CMN">>))
PatientEmptyName ==
    Patient("p5", Some(<<>>), Some(<<"B","c">>), Some(DateOfDay(2)),
            Some(<<"FACE">>))

OrderPool ==
    { Order(1, Some(FALSE), Some(PatientAl), Some(DocumentationVerification),
            Some("green"), Some(DateOfDay(2) + MsPerDay - 1),
            Some([FACE |-> "Complete"]), Some("West"), Some("Kim")),
      Order(2, None, None, Some(PatientIntake), None, None, None,
            Some("West"), None),
      Order(3, Some(TRUE), Some(PatientAlUpper), Some(Preauthorization),
            Some("red"), Some(DateOfDay(3)),
            Some([FACE |-> "Complete", CMN |-> "Complete"]), Some("East"),
            Some("Kim")),
      Order(4, Some(FALSE), Some(PatientBo), None, Some("yellow"),
            Some(DateOfDay(2)), Some([CMN |-> "Missing"]), None, Some("Lee")),
      Order(5, Some(FALSE), Some(PatientNoName), Some(ReferralReceived),
            Some("green"), Some(DateOfDay(2) + 12 * MsPerHour), Some(<<>>),
            Some("West"), Some("Kim")),
      Order(6, Some(FALSE), Some(PatientAl), Some(PatientIntake), Some("green"),
            Some(DateOfDay(1)), Some([FACE |-> "Complete", CMN |-> "Complete"]),
            Some("East"), Some("Lee")),
      Order(7, Some(TRUE), Some(PatientEmptyName), Some(Preauthorization),
            Some("red"), None, Some([RX |-> "Complete"]), Some("West"),
            Some("Kim")) }

\* the sequences of at most n referrals of the pool, with distinct ids
RECURSIVE CollectionsUpTo(_, _)
CollectionsUpTo(pool, n) ==
    IF n = 0 THEN {<<>>}
    ELSE LET shorter == CollectionsUpTo(pool, n - 1)
         IN  shorter \cup
             {Append(c, o) : c \in {d \in shorter : Len(d) = n - 1},
                             o \in pool}

Collections(pool, n) ==
    {c \in CollectionsUpTo(pool, n) :
        \A i, j \in DOMAIN c : i # j => c[i].id # c[j].id}

AdvancedPool ==
    { [EmptyAdvanced EXCEPT !.dob = Some(1)],
      [EmptyAdvanced EXCEPT !.dateEnd = Some(2)],
      [EmptyAdvanced EXCEPT !.dateStart = Some(2)],
      [EmptyAdvanced EXCEPT !.dateStart = Some(2), !.dateEnd = Some(2)],
      [EmptyAdvanced EXCEPT !.insurance = Some(<<"A","E",","," ","b","c">>)],
      [EmptyAdvanced EXCEPT !.payer_region = Some("West")],
      [EmptyAdvanced EXCEPT !.rep_name = Some("Kim")],
      [EmptyAdvanced EXCEPT !.firstName = Some(<<"A">>)],
      [EmptyAdvanced EXCEPT !.workflowStage = Some(Preauthorization)],
      [EmptyAdvanced EXCEPT !.docFilterKey = Some("FACE"),
                            !.docFilterStatus = Some("Complete")],
      [EmptyAdvanced EXCEPT !.docFilterKey = Some("CMN"),
                            !.docFilterStatus = Some("Missing")],
      [EmptyAdvanced EXCEPT !.docFilterKey = Some("RX"),
                            !.docFilterStatus = Some("Not Required")] }

TermPool == {<<"a","l">>, <<"P","A","R">>}

AccountPool == {<<"A","e">>}

TzPool == {0 - 5 * MsPerHour, 0, 2 * MsPerHour}

Pages == {"referrals", "detail"}

\* a handler that is not running
Idle == [pc |-> "idle"]

StoplightOptions == {"green", "yellow", "red"}

ArchiveOptions == {"active", "archived", "all"}

----------------------------------------------------------------------------
(* The Referrals page: state after mount and the events that change what   *)
(* the memo reads.                                                         *)

\* the parts of the state the filter events leave alone
InitHandlers ==
    /\ selectedOrderIds = <<>>
    /\ selectedOrder = None
    /\ showStageModal = FALSE
    /\ showMassUpdateModal = FALSE
    /\ toasts = <<>>
    /\ db = <<>>
    /\ regressions = <<>>
    /\ patient_notes = <<>>
    /\ invalidated = {}
    /\ stageSave = [page \in Pages |-> Idle]
    /\ massUpdate = Idle
    /\ detail = None
    /\ showDetailStageModal = FALSE
    /\ ops = 0

InitRest == route = "referrals" /\ InitHandlers

\* the other pages and components before they are used
InitKpi == kpiArgs = None /\ kpiDelta = None

InitDashboard == dateRange = None /\ dashboardOrders = None

InitTrends == trendData = <<>> /\ loading = FALSE

EmptyMemo == [orders |-> None, filteredPatients |-> None]

InitPatients ==
    /\ allData = None
    /\ patientsFilters = [archiveFilter |-> "active", stoplightFilter |-> None,
                          advancedFilters |-> EmptyAdvanced]
    /\ selectedPatientIds = <<>>

NoFetch == [referrals |-> None, patients |-> None, started |-> 0]

InitQueries == patientsTable = <<>> /\ fetching = NoFetch /\ fetchLog = <<>>

InitBulkUi ==
    /\ requests = <<>>
    /\ showMassDocUpdateModal = FALSE
    /\ massDocUpdate = [pc |-> "idle"]
    /\ showArchiveConfirm = FALSE
    /\ isArchiving = FALSE
    /\ bulkArchive = [pc |-> "idle"]
    /\ docsState = <<>>
    /\ docToggle = [pc |-> "idle"]
    /\ showArchiveModal = FALSE
    /\ archiveConfirm = [pc |-> "idle"]
    /\ orderToDelete = None
    /\ isDeleting = FALSE
    /\ deleteConfirm = [pc |-> "idle"]
    /\ docMutations = <<>>

InitOther ==
    /\ InitKpi /\ InitDashboard /\ InitTrends /\ InitPatients
    /\ memo = EmptyMemo
    /\ InitQueries
    /\ InitBulkUi

InitFilter ==
    /\ InitRest
    /\ InitOther
    /\ allOrders = None
    /\ searchParams = NoParams
    /\ activeFilters = <<>>
    /\ stoplightFilter = None
    /\ advancedFilters = EmptyAdvanced
    /\ debouncedTerm = None
    /\ tz \in TzPool

\* the query function resolves with the rows of the Record Store
FetchResolve(data) ==
    /\ allOrders' = Some(data)
    /\ invalidated' = invalidated \ {"referrals_direct_all"}
    /\ UNCHANGED <<restVars, searchParams, activeFilters, stoplightFilter, advancedFilters,
                   debouncedTerm, tz, route, selectedOrderIds, storeVars,
                   selectedOrder, showStageModal, showMassUpdateModal, toasts,
                   stageSave, massUpdate, detail, showDetailStageModal, ops>>

\* ReferralFilterBar onToggleFilter
onToggleFilter(filter) ==
    /\ activeFilters' =
           IF \E i \in DOMAIN activeFilters : activeFilters[i] = filter
           THEN SelectSeq(activeFilters, LAMBDA f : f # filter)
           ELSE Append(activeFilters, filter)
    /\ Len(activeFilters') <= MaxActiveFilters
    /\ UNCHANGED <<restVars, allOrders, searchParams, stoplightFilter, advancedFilters,
                   debouncedTerm, tz, route,
                   storeVars, handlerVars>>
    /\ selectedOrderIds' = <<>>

\* the stoplight buttons: onStoplightFilterChange(stoplightFilter === status ? null : status)
onStoplightFilterChange(status) ==
    /\ stoplightFilter' = IF stoplightFilter = Some(status) THEN None ELSE Some(status)
    /\ UNCHANGED <<restVars, allOrders, searchParams, activeFilters, advancedFilters,
                   debouncedTerm, tz, route,
                   storeVars, handlerVars>>
    /\ selectedOrderIds' = <<>>

\* AdvancedFilterPanel onApply
onApply(filters) ==
    /\ advancedFilters' = filters
    /\ UNCHANGED <<restVars, allOrders, searchParams, activeFilters, stoplightFilter,
                   debouncedTerm, tz, route,
                   storeVars, handlerVars>>
    /\ selectedOrderIds' = <<>>

\* AdvancedFilterPanel onClear
onClear ==
    /\ advancedFilters' = EmptyAdvanced
    /\ UNCHANGED <<restVars, allOrders, searchParams, activeFilters, stoplightFilter,
                   debouncedTerm, tz, route,
                   storeVars, handlerVars>>
    /\ selectedOrderIds' = <<>>

\* setSearchParams(next) after the handler has set adv and stoplight: the URL
\* changes, the page renders, and the effect on [searchParams] runs if the
\* query string is another one
setSearchParams(next, adv, stoplight) ==
    /\ searchParams' = next
    /\ LET after == IF next = searchParams
                     THEN [advancedFilters |-> adv, stoplightFilter |-> stoplight]
                     ELSE searchParamsEffect(next, adv, stoplight)
       IN  /\ advancedFilters' = after.advancedFilters
           /\ stoplightFilter' = after.stoplightFilter

\* the effect that empties the selection, after a change of the URL
selectionAfterUrlChange ==
    IF \/ archiveFilter' # archiveFilter
       \/ accountFilter' # accountFilter
       \/ stoplightFilter' # stoplightFilter
       \/ searchParams' # searchParams /\ hasNewFilters(searchParams')
    THEN <<>> ELSE selectedOrderIds

\* handleArchiveFilterChange
handleArchiveFilterChange(newFilter) ==
    /\ setSearchParams([searchParams EXCEPT !.archive_status = Some(newFilter)],
                       advancedFilters, stoplightFilter)
    /\ UNCHANGED <<restVars, allOrders, activeFilters,
                   debouncedTerm, tz, route,
                   storeVars, handlerVars>>
    /\ selectedOrderIds' = selectionAfterUrlChange

\* a navigation to the page with an account parameter
NavigateAccount(account) ==
    /\ setSearchParams([searchParams EXCEPT !.account = Some(account)],
                       advancedFilters, stoplightFilter)
    /\ UNCHANGED <<restVars, allOrders, activeFilters,
                   debouncedTerm, tz, route,
                   storeVars, handlerVars>>
    /\ selectedOrderIds' = selectionAfterUrlChange

\* a navigation to the page with another query string
NavigateUrl(params) ==
    /\ route = "referrals"
    /\ setSearchParams(params, advancedFilters, stoplightFilter)
    /\ UNCHANGED <<restVars, allOrders, activeFilters,
                   debouncedTerm, tz, route,
                   storeVars, handlerVars>>
    /\ selectedOrderIds' = selectionAfterUrlChange

\* the debounced search term settles on what was typed
SetTerm(term) ==
    /\ debouncedTerm' = term
    /\ UNCHANGED <<restVars, allOrders, searchParams, activeFilters, stoplightFilter,
                   advancedFilters, tz, route,
                   storeVars, handlerVars>>
    /\ selectedOrderIds' = IF debouncedTerm' # debouncedTerm THEN <<>> ELSE selectedOrderIds

\* clearAllFilters
clearAllFilters ==
    /\ activeFilters' = <<>>
    /\ setSearchParams([searchParams EXCEPT !.account = None, !.insurance = None,
                                            !.dateStart = None, !.dateEnd = None,
                                            !.region = None, !.rep = None,
                                            !.archive_status = Some("active")],
                       EmptyAdvanced, None)
    /\ UNCHANGED <<restVars, allOrders, debouncedTerm, tz, route,
                   storeVars, handlerVars>>
    /\ selectedOrderIds' = <<>>

FilterCollections == Collections(OrderPool, MaxOrders)

NextFilter ==
    \/ \E data \in FilterCollections : FetchResolve(data)
    \/ \E i \in DOMAIN filterOptions : onToggleFilter(filterOptions[i])
    \/ \E status \in StoplightOptions : onStoplightFilterChange(status)
    \/ \E filters \in AdvancedPool : onApply(filters)
    \/ onClear
    \/ \E newFilter \in ArchiveOptions : handleArchiveFilterChange(newFilter)
    \/ \E account \in AccountPool : NavigateAccount(account)
    \/ \E term \in TermPool : SetTerm(Some(term))
    \/ SetTerm(None)
    \/ clearAllFilters

SpecFilter == InitFilter /\ [][NextFilter]_vars

\* The same page with longer fetched lists and the events that do not
\* depend on the advanced panel: the view is the sorted, filtered list.
SortPool == {o \in OrderPool : o.id # 5}

SortCollections == Collections(SortPool, MaxSortOrders)

InitSort == InitFilter /\ tz = 0

NextSort ==
    \/ \E data \in SortCollections : FetchResolve(data)
    \/ \E newFilter \in ArchiveOptions : handleArchiveFilterChange(newFilter)
    \/ \E term \in TermPool : SetTerm(Some(term))
    \/ SetTerm(None)

SpecSort == InitSort /\ [][NextSort]_vars

----------------------------------------------------------------------------
(* Workflow stage order and the regression predicate. *)

\* position of a stage in the canonical order, -1 for null or an unknown stage
stageIndex(stage) ==
    IF stage # None /\ \E i \in DOMAIN workflowStages : workflowStages[i] = stage[1]
    THEN (CHOOSE i \in DOMAIN workflowStages : workflowStages[i] = stage[1]) - 1
    ELSE -1

\* isBackward(currentStage, newStage) of lib/utils
isBackward(currentStage, newStage) ==
    stageIndex(Some(newStage)) < stageIndex(currentStage)

\* the call with its arguments exchanged
isRegressionOfExchanged(order, newStage) ==
    /\ order.workflow_stage # None
    /\ isBackward(Some(newStage), order.workflow_stage[1])

\* const isRegression = isBackward(<the order>.workflow_stage, newStage)
isRegressionOf(order, newStage) == isBackward(order.workflow_stage, newStage)

\* the condition without isRegression
insertsRegressionOnReason(isRegression, regressionReason) ==
    Truthy(regressionReason)

\* if (isRegression && regressionReason)
insertsRegression(isRegression, regressionReason) ==
    isRegression /\ Truthy(regressionReason)

\* What StageChangeModal hands to onSave: a stage of the list, a note, and a
\* reason, which the modal demands when the move is backward.
StagePayloads(current) ==
    {p \in [newStage : Range(workflowStages), note : {<<"n">>},
            regressionReason : {None, Some(<<"r">>)}] :
        isBackward(current, p.newStage) => Truthy(p.regressionReason)}

\* What MassUpdateModal hands to onConfirm
MassPayloads ==
    {[newStage |-> workflowStages[i], note |-> <<"n">>] :
        i \in DOMAIN workflowStages}

----------------------------------------------------------------------------
(* The Record Store as the handlers see it. *)

\* update({workflow_stage: newStage, ...}).eq('id', id) / .in('id', ids)
updateStage(rows, ids, newStage) ==
    [i \in DOMAIN rows |->
        IF rows[i].id \in ids
        THEN [rows[i] EXCEPT !.workflow_stage = Some(newStage)]
        ELSE rows[i]]

toast(message, kind) == [message |-> message, kind |-> kind]

\* one write request: the handler and the invocation that sent it, the table
\* or procedure, the verb and the ids of its filter or argument
request(by, op, to, verb, ids) ==
    [by |-> by, op |-> op, to |-> to, verb |-> verb, ids |-> ids]

----------------------------------------------------------------------------
(* Referrals page: the single stage save. *)

\* handleStageChangeClick
handleStageChangeClick(order) ==
    /\ route = "referrals"
    /\ selectedOrder' = Some(order)
    /\ showStageModal' = TRUE
    /\ UNCHANGED <<restVars, filterVars, selectedOrderIds, storeVars, showMassUpdateModal,
                   toasts, invalidated, stageSave, massUpdate, detail,
                   showDetailStageModal, ops>>

\* StageChangeModal onClose
closeStageModal ==
    /\ showStageModal
    /\ showStageModal' = FALSE
    /\ UNCHANGED <<restVars, filterVars, selectedOrderIds, storeVars, selectedOrder,
                   showMassUpdateModal, toasts, invalidated, stageSave,
                   massUpdate, detail, showDetailStageModal, ops>>

\* handleStageSave up to its first await: the update request is sent
handleStageSave(payload) ==
    /\ showStageModal /\ selectedOrder # None
    /\ selectedOrder[1].patients # None
    /\ stageSave["referrals"].pc \in {"idle", "done", "failed"}
    /\ ops < MaxOps
    /\ ops' = ops + 1
    /\ stageSave' = [stageSave EXCEPT !["referrals"] =
           [pc |-> "update", op |-> ops + 1, order |-> selectedOrder[1],
            patient_id |-> selectedOrder[1].patient_id,
            newStage |-> payload.newStage, note |-> payload.note,
            regressionReason |-> payload.regressionReason,
            isRegression |-> isRegressionOf(selectedOrder[1], payload.newStage)]]
    /\ requests' = Append(requests,
           request("handleStageSave", ops + 1, "orders", "update",
                   <<selectedOrder[1].id>>))
    /\ UNCHANGED <<quietVars, filterVars, selectedOrderIds, storeVars, selectedOrder,
                   showStageModal, showMassUpdateModal, toasts, invalidated,
                   massUpdate, detail, showDetailStageModal>>

\* the failure branch closing the modal as the success branch does
StageSaveUpdateFailClosing(page) ==
    /\ stageSave[page].pc = "update"
    /\ toasts' = Append(toasts, toast(<<"Failed to update stage.">>, "err"))
    /\ stageSave' = [stageSave EXCEPT ![page].pc = "failed"]
    /\ IF page = "referrals"
       THEN /\ showStageModal' = FALSE
            /\ selectedOrder' = None
            /\ UNCHANGED showDetailStageModal
       ELSE /\ showDetailStageModal' = FALSE
            /\ UNCHANGED <<showStageModal, selectedOrder>>
    /\ UNCHANGED <<restVars, filterVars, selectedOrderIds, storeVars,
                   showMassUpdateModal, invalidated, massUpdate, detail, ops>>

\* the update request failed: toast and return
StageSaveUpdateFail(page) ==
    /\ stageSave[page].pc = "update"
    /\ toasts' = Append(toasts, toast(<<"Failed to update stage.">>, "err"))
    /\ stageSave' = [stageSave EXCEPT ![page].pc = "failed"]
    /\ UNCHANGED <<restVars, filterVars, selectedOrderIds, storeVars, selectedOrder,
                   showStageModal, showMassUpdateModal, invalidated, massUpdate,
                   detail, showDetailStageModal, ops>>

\* the update request succeeded: the row is written and apiAddNote is called
StageSaveUpdateOk(page) ==
    /\ stageSave[page].pc = "update"
    /\ db' = updateStage(db, {stageSave[page].order.id}, stageSave[page].newStage)
    /\ stageSave' = [stageSave EXCEPT ![page].pc = "note"]
    /\ requests' = Append(requests,
           request("handleStageSave", stageSave[page].op, "patient_notes",
                   "insert", <<>>))
    /\ UNCHANGED <<quietVars, filterVars, selectedOrderIds, regressions, patient_notes,
                   selectedOrder, showStageModal, showMassUpdateModal, toasts,
                   invalidated, massUpdate, detail, showDetailStageModal, ops>>

\* the tail of handleStageSave, from toast('Stage updated.') to its end
StageSaveFinish(page) ==
    /\ toasts' = Append(toasts, toast(<<"Stage updated.">>, "ok"))
    /\ stageSave' = [stageSave EXCEPT ![page].pc = "done"]
    /\ IF page = "referrals"
       THEN /\ invalidated' = invalidated \cup
                   {"referrals_direct_all", "dashboard_metrics", "regression_insights"}
            /\ showStageModal' = FALSE
            /\ selectedOrder' = None
            /\ UNCHANGED showDetailStageModal
       ELSE /\ invalidated' = invalidated \cup
                   {"patient_full_details", "referrals_direct_all",
                    "dashboard_metrics", "regression_insights"}
            /\ showDetailStageModal' = FALSE
            /\ UNCHANGED <<showStageModal, selectedOrder>>

\* the row handed to apiAddNote
stageNote(inv) ==
    [patient_id |-> inv.patient_id, body |-> inv.note, source |-> "stage_change",
     stage_from |-> inv.order.workflow_stage, stage_to |-> Some(inv.newStage)]

\* the row inserted into regressions
regressionRow(inv) ==
    [order_id |-> inv.order.id, reason |-> inv.regressionReason,
     notes |-> inv.note, previous_stage |-> inv.order.workflow_stage,
     new_stage |-> inv.newStage]

\* apiAddNote returned: either the regression insert is sent or the handler ends
StageSaveNoteDone(page) ==
    /\ stageSave[page].pc = "note"
    /\ patient_notes' = Append(patient_notes, stageNote(stageSave[page]))
    /\ IF insertsRegression(stageSave[page].isRegression,
                            stageSave[page].regressionReason)
       THEN /\ stageSave' = [stageSave EXCEPT ![page].pc = "insert"]
            /\ requests' = Append(requests,
                   request("handleStageSave", stageSave[page].op, "regressions",
                           "insert", <<>>))
            /\ UNCHANGED <<toasts, invalidated, showStageModal, selectedOrder,
                           showDetailStageModal>>
       ELSE StageSaveFinish(page) /\ UNCHANGED requests
    /\ UNCHANGED <<quietVars, filterVars, selectedOrderIds, db, regressions,
                   showMassUpdateModal, massUpdate, detail, ops>>

\* the regression insert returned (its error is not looked at)
StageSaveInsertDone(page, ok) ==
    /\ stageSave[page].pc = "insert"
    /\ regressions' = IF ok THEN Append(regressions, regressionRow(stageSave[page]))
                      ELSE regressions
    /\ StageSaveFinish(page)
    /\ UNCHANGED <<restVars, filterVars, selectedOrderIds, db, patient_notes,
                   showMassUpdateModal, massUpdate, detail, ops>>

----------------------------------------------------------------------------
(* Patient detail page: its query and its stage save. *)

\* the rows of a patient, latest first: order('created_at', desc).limit(1)
latestOrderOf(rows, pid) ==
    LET mine == {i \in DOMAIN rows : rows[i].patient_id = Some(pid)}
    IN  IF mine = {} THEN None
        ELSE Some(rows[CHOOSE i \in mine :
                          \A j \in mine : rows[j].created_at <= rows[i].created_at])

\* the query function of ['patient_full_details', patientId] resolves
DetailFetchResolve(patient) ==
    /\ route = "detail"
    /\ detail' = Some([patient |-> patient, order |-> latestOrderOf(db, patient.id)])
    /\ invalidated' = invalidated \ {"patient_full_details"}
    /\ UNCHANGED <<restVars, filterVars, selectedOrderIds, storeVars, selectedOrder,
                   showStageModal, showMassUpdateModal, toasts, stageSave,
                   massUpdate, showDetailStageModal, ops>>

\* WorkflowHub onStageChangeClick
openDetailStageModal ==
    /\ detail # None
    /\ showDetailStageModal' = TRUE
    /\ UNCHANGED <<restVars, filterVars, selectedOrderIds, storeVars, selectedOrder,
                   showStageModal, showMassUpdateModal, toasts, invalidated,
                   stageSave, massUpdate, detail, ops>>

\* PatientDetailPage.handleStageSave up to its first await
detailHandleStageSave(payload) ==
    /\ showDetailStageModal /\ detail # None /\ detail[1].order # None
    /\ stageSave["detail"].pc \in {"idle", "done", "failed"}
    /\ ops < MaxOps
    /\ ops' = ops + 1
    /\ stageSave' = [stageSave EXCEPT !["detail"] =
           [pc |-> "update", op |-> ops + 1, order |-> detail[1].order[1],
            patient_id |-> Some(detail[1].patient.id),
            newStage |-> payload.newStage, note |-> payload.note,
            regressionReason |-> payload.regressionReason,
            isRegression |-> isRegressionOf(detail[1].order[1], payload.newStage)]]
    /\ requests' = Append(requests,
           request("handleStageSave", ops + 1, "orders", "update",
                   <<detail[1].order[1].id>>))
    /\ UNCHANGED <<quietVars, filterVars, selectedOrderIds, storeVars, selectedOrder,
                   showStageModal, showMassUpdateModal, toasts, invalidated,
                   massUpdate, detail, showDetailStageModal>>

----------------------------------------------------------------------------
(* Referrals page: selection and the bulk stage update. *)

\* handleToggleSelection
handleToggleSelection(orderId) ==
    /\ selectedOrderIds' =
           IF orderId \in Range(selectedOrderIds)
           THEN SelectSeq(selectedOrderIds, LAMBDA id : id # orderId)
           ELSE Append(selectedOrderIds, orderId)
    /\ UNCHANGED <<restVars, filterVars, storeVars, handlerVars>>

\* handleSelectAll
handleSelectAll ==
    /\ selectedOrderIds' =
           LET view == orders
           IN  IF Len(selectedOrderIds) = Len(view) THEN <<>>
               ELSE [i \in DOMAIN view |-> view[i].id]
    /\ UNCHANGED <<restVars, filterVars, storeVars, handlerVars>>

\* BulkActionsFooter onUpdateStage (the footer shows while rows are selected)
openMassUpdateModal ==
    /\ Len(selectedOrderIds) > 0
    /\ showMassUpdateModal' = TRUE
    /\ UNCHANGED <<restVars, filterVars, selectedOrderIds, storeVars, selectedOrder,
                   showStageModal, toasts, invalidated, stageSave, massUpdate,
                   detail, showDetailStageModal, ops>>

\* handleMassStageUpdate up to its first await
handleMassStageUpdate(payload) ==
    /\ showMassUpdateModal
    /\ Len(selectedOrderIds) # 0
    /\ massUpdate.pc \in {"idle", "done", "failed"}
    /\ ops < MaxOps
    /\ ops' = ops + 1
    /\ massUpdate' =
           [pc |-> "update", op |-> ops + 1, ids |-> selectedOrderIds,
            ordersToUpdate |->
                IF allOrders = None THEN <<>>
                ELSE SelectSeq(allOrders[1],
                               LAMBDA o : o.id \in Range(selectedOrderIds)),
            newStage |-> payload.newStage, note |-> payload.note]
    /\ requests' = Append(requests,
           request("handleMassStageUpdate", ops + 1, "orders", "update",
                   selectedOrderIds))
    /\ UNCHANGED <<quietVars, filterVars, selectedOrderIds, storeVars, selectedOrder,
                   showStageModal, showMassUpdateModal, toasts, invalidated,
                   stageSave, detail, showDetailStageModal>>

\* the bulk update request failed: one toast and return
MassUpdateFail ==
    /\ massUpdate.pc = "update"
    /\ toasts' = Append(toasts,
           toast(<<"Failed to update referrals.", Len(massUpdate.ids)>>, "err"))
    /\ massUpdate' = [massUpdate EXCEPT !.pc = "failed"]
    /\ UNCHANGED <<restVars, filterVars, selectedOrderIds, storeVars, selectedOrder,
                   showStageModal, showMassUpdateModal, invalidated, stageSave,
                   detail, showDetailStageModal, ops>>

\* the bulk update request succeeded: the rows are written, the notes are sent
MassUpdateOk ==
    /\ massUpdate.pc = "update"
    /\ db' = updateStage(db, Range(massUpdate.ids), massUpdate.newStage)
    /\ massUpdate' = [massUpdate EXCEPT !.pc = "notes"]
    /\ requests' = Append(requests,
           request("handleMassStageUpdate", massUpdate.op, "patient_notes",
                   "insert", <<>>))
    /\ UNCHANGED <<quietVars, filterVars, selectedOrderIds, regressions, patient_notes,
                   selectedOrder, showStageModal, showMassUpdateModal, toasts,
                   invalidated, stageSave, detail, showDetailStageModal, ops>>

\* notePayloads
notePayloads(inv) ==
    [i \in DOMAIN inv.ordersToUpdate |->
        [patient_id |-> inv.ordersToUpdate[i].patient_id, body |-> inv.note,
         source |-> "stage_change",
         stage_from |-> inv.ordersToUpdate[i].workflow_stage,
         stage_to |-> Some(inv.newStage)]]

\* the notes insert returned (its error is not looked at): the tail of the handler
MassUpdateNotesDone(ok) ==
    /\ massUpdate.pc = "notes"
    /\ patient_notes' = IF ok THEN patient_notes \o notePayloads(massUpdate)
                        ELSE patient_notes
    /\ toasts' = Append(toasts,
           toast(<<"referrals updated.", Len(massUpdate.ids)>>, "ok"))
    /\ invalidated' = invalidated \cup {"referrals_direct_all"}
    /\ selectedOrderIds' = <<>>
    /\ showMassUpdateModal' = FALSE
    /\ massUpdate' = [massUpdate EXCEPT !.pc = "done"]
    /\ UNCHANGED <<restVars, filterVars, db, regressions, selectedOrder, showStageModal,
                   stageSave, detail, showDetailStageModal, ops>>

----------------------------------------------------------------------------
(* The pages over a Record Store whose rows the handlers change. *)

StagePool ==
    { Order(1, Some(FALSE), Some(PatientAl), Some(DocumentationVerification),
            Some("green"), Some(DateOfDay(2)), Some([FACE |-> "Complete"]),
            Some("West"), Some("Kim")),
      Order(3, Some(FALSE), Some(PatientBo), Some(Preauthorization),
            Some("red"), Some(DateOfDay(3)), None, Some("East"), Some("Kim")),
      Order(4, Some(FALSE), Some(PatientBo), None, Some("yellow"),
            Some(DateOfDay(2)), None, None, Some("Lee")) }

\* the tables that hold at most n of these referrals, in id order
Tables(n) ==
    {c \in UNION {[1..k -> StagePool] : k \in 0..n} :
        \A i, j \in DOMAIN c : i < j => c[i].id < c[j].id}

PatientsOf(rows) ==
    {rows[i].patients[1] : i \in {k \in DOMAIN rows : rows[k].patients # None}}

InitStage ==
    /\ InitOther
    /\ allOrders = None
    /\ searchParams = NoParams
    /\ activeFilters = <<>>
    /\ stoplightFilter = None
    /\ advancedFilters = EmptyAdvanced
    /\ debouncedTerm = None
    /\ tz = 0
    /\ route \in Pages
    /\ selectedOrderIds = <<>>
    /\ selectedOrder = None
    /\ showStageModal = FALSE
    /\ showMassUpdateModal = FALSE
    /\ toasts = <<>>
    /\ db \in Tables(MaxStageOrders)
    /\ regressions = <<>>
    /\ patient_notes = <<>>
    /\ invalidated = {}
    /\ stageSave = [page \in Pages |-> Idle]
    /\ massUpdate = Idle
    /\ detail = None
    /\ showDetailStageModal = FALSE
    /\ ops = 0

\* the single stage save of both pages
NextStage ==
    \/ route = "referrals" /\ FetchResolve(db)
    \/ LET view == orders
       IN  \E i \in DOMAIN view : handleStageChangeClick(view[i])
    \/ closeStageModal
    \/ \E payload \in StagePayloads(IF selectedOrder = None THEN None
                                    ELSE selectedOrder[1].workflow_stage) :
           handleStageSave(payload)
    \/ \E page \in Pages : StageSaveUpdateFail(page)
    \/ \E page \in Pages : StageSaveUpdateOk(page)
    \/ \E page \in Pages : StageSaveNoteDone(page)
    \/ \E page \in Pages, ok \in BOOLEAN : StageSaveInsertDone(page, ok)
    \/ \E patient \in PatientsOf(db) : DetailFetchResolve(patient)
    \/ openDetailStageModal
    \/ \E payload \in StagePayloads(IF detail = None \/ detail[1].order = None
                                    THEN None
                                    ELSE detail[1].order[1].workflow_stage) :
           detailHandleStageSave(payload)

SpecStage == InitStage /\ [][NextStage]_vars

\* the selection and the bulk stage update of the Referrals page
NextMass ==
    \/ FetchResolve(db)
    \/ LET view == orders
       IN  \E i \in DOMAIN view : handleToggleSelection(view[i].id)
    \/ handleSelectAll
    \/ openMassUpdateModal
    \/ \E payload \in MassPayloads : handleMassStageUpdate(payload)
    \/ MassUpdateFail
    \/ MassUpdateOk
    \/ \E ok \in BOOLEAN : MassUpdateNotesDone(ok)

InitMass == InitStage /\ route = "referrals"

SpecMass == InitMass /\ [][NextMass]_vars


----------------------------------------------------------------------------
(* The document-requirement filter on its own: one referral per            *)
(* combination of required list and status map, one filter per key and     *)
(* status.                                                                 *)

MaxDocOrders == 1

DocKeys == {"FACE", "CMN", "RX"}

DocStatuses == {"Complete", "Missing", "Not Required"}

DocRequiredSeq ==
    << None, Some(<<>>), Some(<<"FACE">>), Some(<<"CMN", "FACE">>) >>

DocStatusSeq ==
    << None, Some(<<>>), Some([FACE |-> "Complete"]),
       Some([FACE |-> "Missing"]), Some([FACE |-> "Complete", CMN |-> "Missing"]),
       Some([RX |-> "Complete", CMN |-> "Complete"]) >>

DocOrder(oid, patient, docs) ==
    Order(oid, Some(FALSE), patient, Some(DocumentationVerification),
          Some("yellow"), Some(DateOfDay(1)), docs, None, None)

DocOrderPool ==
    { DocOrder((i - 1) * Len(DocStatusSeq) + j,
               Some(Patient("p1", Some(<<"a","l">>), None, None,
                            DocRequiredSeq[i])),
               DocStatusSeq[j]) :
          i \in DOMAIN DocRequiredSeq, j \in DOMAIN DocStatusSeq }
    \cup { DocOrder(0, None, DocStatusSeq[j]) : j \in {1, 3} }

DocAdvancedPool ==
    { [EmptyAdvanced EXCEPT !.docFilterKey = Some(k), !.docFilterStatus = Some(st)] :
          k \in DocKeys, st \in DocStatuses }
    \cup { [EmptyAdvanced EXCEPT !.docFilterKey = Some("FACE")] }

DocCollections == Collections(DocOrderPool, MaxDocOrders)

InitDoc == InitFilter /\ tz = 0

NextDoc ==
    \/ \E data \in DocCollections : FetchResolve(data)
    \/ \E filters \in DocAdvancedPool : onApply(filters)
    \/ onClear

SpecDoc == InitDoc /\ [][NextDoc]_vars

----------------------------------------------------------------------------
(* Numbers.  A JavaScript number that a division produced is kept as the   *)
(* fraction num/den in lowest terms with den > 0 (the rounding of a double *)
(* is left out).                                                           *)

RECURSIVE gcd(_, _)
gcd(a, b) == IF b = 0 THEN a ELSE gcd(b, a % b)

abs(n) == IF n < 0 THEN 0 - n ELSE n

\* the fraction n/d (d # 0) in lowest terms
Fraction(n, d) ==
    LET g == gcd(abs(n), abs(d))
        sgn == IF d < 0 THEN 0 - 1 ELSE 1
    IN  [num |-> sgn * (n \div g), den |-> sgn * (d \div g)]

Number(n) == [num |-> n, den |-> 1]

\* a - b, a / b (b # 0) and a * b on numbers
minus(a, b) == Fraction(a.num * b.den - b.num * a.den, a.den * b.den)
dividedBy(a, b) == Fraction(a.num * b.den, a.den * b.num)
times(a, b) == Fraction(a.num * b.num, a.den * b.den)

----------------------------------------------------------------------------
(* Dashboard: the deltas of the KPI tiles (useDashboardMetrics).            *)

MaxCount == 10

\* the delta of the rate metrics, current - prev, used for a count metric
calculateDeltaAbsolute(current, prev) == Number(current - prev)

\* calculateDelta
calculateDelta(current, prev) ==
    IF prev = 0 THEN (IF current > 0 THEN Number(100) ELSE Number(0))
    ELSE times(dividedBy(Number(current - prev), Number(prev)), Number(100))

CountMetrics == {"newReferrals", "readyForPar", "denials", "regressions"}

RateMetrics == {"docsCompletePercent", "avgAge"}

\* the delta field of one entry of kpis
kpiDeltaOf(metric, current, prev) ==
    IF metric \in CountMetrics THEN calculateDelta(current, prev)
    ELSE minus(Number(current), Number(prev))

\* the metrics memo computes the delta of one tile
ComputeKpi ==
    /\ kpiArgs # None /\ kpiDelta = None
    /\ kpiDelta' = Some(kpiDeltaOf(kpiArgs[1].metric, kpiArgs[1].current,
                                   kpiArgs[1].prev))
    /\ UNCHANGED <<filterVars, selectedOrderIds, storeVars, handlerVars, kpiArgs,
                   dashboardVars, trendVars, patientsVars, memo, queryVars, requests, bulkVars,
                   docVars,
                   confirmVars, raceVars>>

\* the page at mount, before any fetch
InitPage ==
    /\ InitRest
    /\ allOrders = None
    /\ searchParams = NoParams
    /\ activeFilters = <<>>
    /\ stoplightFilter = None
    /\ advancedFilters = EmptyAdvanced
    /\ debouncedTerm = None
    /\ tz = 0

InitDelta ==
    /\ InitPage
    /\ kpiArgs \in {Some(a) : a \in [metric : CountMetrics \cup RateMetrics,
                                     current : 0..MaxCount, prev : 0..MaxCount]}
    /\ kpiDelta = None
    /\ InitDashboard /\ InitTrends /\ InitPatients /\ memo = EmptyMemo
    /\ InitQueries
    /\ InitBulkUi

NextDelta == ComputeKpi

SpecDelta == InitDelta /\ [][NextDelta]_vars

----------------------------------------------------------------------------
(* Dashboard: the metrics of the current and of the previous period.        *)

\* const periodDuration = (to.getTime() - from.getTime())
periodDuration(range) == range.to - range.from

\* const prevFrom = new Date(from.getTime() - periodDuration)
prevFrom(range) == range.from - periodDuration(range)

\* const prevTo = new Date(from.getTime() - 1)
prevTo(range) == range.from - 1

\* queryRange
queryRange(range) == [from |-> prevFrom(range), to |-> range.to]

\* the rows the query function selects: created in the query range, joined with
\* their patient (patients!inner) and not archived
dashboardQueryFn(rows, range) ==
    SelectSeq(rows, LAMBDA o :
        /\ o.created_at >= queryRange(range).from
        /\ o.created_at <= queryRange(range).to
        /\ o.patients # None
        /\ o.is_archived \in {None, Some(FALSE)})

\* periodOrders
periodOrders(all, from, to) ==
    SelectSeq(all, LAMBDA o : o.created_at >= from /\ o.created_at <= to)

\* o.patients?.required_documents || []
requiredOf(o) ==
    IF o.patients = None \/ o.patients[1].required_documents = None THEN <<>>
    ELSE o.patients[1].required_documents[1]

\* the test without required.length > 0
readyForParOfAnyLength(o) ==
    \A i \in DOMAIN requiredOf(o) : isComplete(o, requiredOf(o)[i])

\* the callback of readyForPar
readyForParOf(o) ==
    /\ Len(requiredOf(o)) > 0
    /\ \A i \in DOMAIN requiredOf(o) : isComplete(o, requiredOf(o)[i])

RECURSIVE sum(_)
sum(seq) == IF seq = <<>> THEN 0 ELSE seq[1] + sum(Tail(seq))

\* calculateMetricsForPeriod (avgAge, which reads the clock, is left out)
calculateMetricsForPeriod(all, from, to) ==
    LET period == periodOrders(all, from, to)
        totalDocs == sum([i \in DOMAIN period |-> Len(requiredOf(period[i]))])
        completedDocs ==
            sum([i \in DOMAIN period |->
                    Cardinality({k \in DOMAIN requiredOf(period[i]) :
                                    isComplete(period[i], requiredOf(period[i])[k])})])
    IN  [newReferrals |-> Len(period),
         readyForPar |-> Len(SelectSeq(period, readyForParOf)),
         denials |-> Cardinality(UNION {Range(period[i].denials) :
                                           i \in DOMAIN period}),
         regressions |->
             Len(SelectSeq(period, LAMBDA o :
                     \E k \in DOMAIN o.workflow_history :
                         isBackward(o.workflow_history[k].previous_stage,
                                    o.workflow_history[k].new_stage))),
         docsCompletePercent |->
             IF totalDocs > 0
             THEN times(dividedBy(Number(completedDocs), Number(totalDocs)),
                        Number(100))
             ELSE Number(0)]

\* the metrics memo
metrics ==
    IF dashboardOrders = None \/ dateRange = None THEN None
    ELSE LET all == dashboardOrders[1]
             from == dateRange[1].from
             to == dateRange[1].to
             currentMetrics == calculateMetricsForPeriod(all, from, to)
             prevMetrics == calculateMetricsForPeriod(all, prevFrom(dateRange[1]),
                                                      prevTo(dateRange[1]))
             currentPeriodOrders == periodOrders(all, from, to)
         IN  Some([kpis |->
                     [m \in CountMetrics |->
                         [value |-> currentMetrics[m],
                          delta |-> calculateDelta(currentMetrics[m],
                                                   prevMetrics[m])]],
                   docsCompletePercent |->
                     [value |-> currentMetrics.docsCompletePercent,
                      delta |-> minus(currentMetrics.docsCompletePercent,
                                      prevMetrics.docsCompletePercent)],
                   stoplightCounts |->
                     [c \in StoplightOptions |->
                         Len(SelectSeq(currentPeriodOrders, LAMBDA o :
                                 IF o.stoplight_status = None THEN c = "green"
                                 ELSE o.stoplight_status[1] = c))],
                   orders |-> currentPeriodOrders,
                   prevOrders |-> periodOrders(all, prevFrom(dateRange[1]),
                                               prevTo(dateRange[1]))])

\* the Dashboard hands a date range to the hook: a new query key, no data yet
SetDateRange(range) ==
    /\ dateRange # Some(range)
    /\ dateRange' = Some(range)
    /\ dashboardOrders' = None
    /\ UNCHANGED <<filterVars, selectedOrderIds, storeVars, handlerVars,
                   kpiVars, trendVars, patientsVars, memo, queryVars, requests, bulkVars,
                   docVars,
                   confirmVars, raceVars>>

\* the query function of ['dashboardOrders', from, to] resolves
DashboardFetchResolve ==
    /\ dateRange # None
    /\ dashboardOrders' = Some(dashboardQueryFn(db, dateRange[1]))
    /\ UNCHANGED <<filterVars, selectedOrderIds, storeVars, handlerVars,
                   kpiVars, dateRange, trendVars, patientsVars, memo, queryVars, requests, bulkVars,
                   docVars,
                   confirmVars, raceVars>>

----------------------------------------------------------------------------
(* Trends: the weekly buckets of fetchTrendData.                            *)

DigitChars == <<"0", "1", "2", "3", "4", "5", "6", "7", "8", "9">>

DaysPerWeek == 7

\* getWeek of lib/utils: the ISO week of an instant of the ISO year 1970
\* (whose week 1 starts on Monday 1969-12-29), written "1970-Www"
getWeek(t) ==
    LET week == ((t \div MsPerDay) + 3) \div DaysPerWeek + 1
    IN  <<"1", "9", "7", "0", "-", "W",
          DigitChars[(week \div 10) + 1], DigitChars[(week % 10) + 1]>>

\* const isReady
isReady(o) ==
    /\ Len(requiredOf(o)) > 0
    /\ \A i \in DOMAIN requiredOf(o) : isComplete(o, requiredOf(o)[i])

\* one turn of sourceData.forEach: map is kept as its values in insertion order
addToMap(map, o) ==
    LET week == getWeek(o.created_at)
        seen == {j \in DOMAIN map : map[j].week = week}
        fresh == IF seen = {} THEN Append(map, [week |-> week, NewReferrals |-> 0,
                                                 DocsReady |-> 0, Archived |-> 0])
                 ELSE map
        j == CHOOSE k \in DOMAIN fresh : fresh[k].week = week
    IN  [fresh EXCEPT
            ![j].NewReferrals = @ + 1,
            ![j].DocsReady = IF isReady(o) THEN @ + 1 ELSE @,
            ![j].Archived = IF o.is_archived = Some(TRUE) THEN @ + 1 ELSE @]

RECURSIVE forEachOrder(_, _)
forEachOrder(sourceData, map) ==
    IF sourceData = <<>> THEN map
    ELSE forEachOrder(Tail(sourceData), addToMap(map, sourceData[1]))

\* the comparator with its arguments exchanged
compareWeeksDescending(a, b) == localeCompare(b.week, a.week)

\* (a, b) => a.week.localeCompare(b.week)
compareWeeks(a, b) == localeCompare(a.week, b.week)

\* Object.values(map).sort(...): a stable sort of the buckets
sortBuckets(values) ==
    LET rank(i) == 1 + Cardinality({j \in DOMAIN values :
                        \/ compareWeeks(values[j], values[i]) < 0
                        \/ compareWeeks(values[j], values[i]) = 0 /\ j < i})
    IN  [r \in DOMAIN values |-> values[CHOOSE i \in DOMAIN values : rank(i) = r]]

\* fetchTrendData up to its await (called by the mount effect)
fetchTrendData ==
    /\ ~loading /\ trendData = <<>> /\ ops < MaxOps
    /\ loading' = TRUE
    /\ ops' = ops + 1
    /\ UNCHANGED <<filterVars, selectedOrderIds, storeVars, selectedOrder,
                   showStageModal, showMassUpdateModal, toasts, invalidated,
                   stageSave, massUpdate, detail, showDetailStageModal,
                   kpiVars, dashboardVars, trendData, patientsVars, memo, queryVars, requests, bulkVars,
                   docVars,
                   confirmVars, raceVars>>

\* the select resolved: the buckets are built, sorted and stored
TrendsResolve ==
    /\ loading
    /\ trendData' = sortBuckets(forEachOrder(db, <<>>))
    /\ loading' = FALSE
    /\ UNCHANGED <<filterVars, selectedOrderIds, storeVars, handlerVars,
                   kpiVars, dashboardVars, patientsVars, memo, queryVars, requests, bulkVars,
                   docVars,
                   confirmVars, raceVars>>

\* the select failed: the catch branch
TrendsReject ==
    /\ loading
    /\ trendData' = <<>>
    /\ loading' = FALSE
    /\ UNCHANGED <<filterVars, selectedOrderIds, storeVars, handlerVars,
                   kpiVars, dashboardVars, patientsVars, memo, queryVars, requests, bulkVars,
                   docVars,
                   confirmVars, raceVars>>

----------------------------------------------------------------------------
(* The dashboard and the Trends page over one orders table.                 *)

MaxAggOrders == 3

\* an orders row with its creation instant, denials and stage history
AggOrder(oid, created, archived, patient, docs, denials, history) ==
    [denials |-> denials, workflow_history |-> history] @@
    [Order(oid, archived, patient, Some(DocumentationVerification), None,
           None, docs, None, None) EXCEPT !.created_at = created]

AggPool ==
    { AggOrder(1, DateOfDay(23), Some(FALSE), Some(PatientAl),
               Some([FACE |-> "Complete", CMN |-> "Complete"]), <<1, 1>>,
               <<[previous_stage |-> None, new_stage |-> ReferralReceived]>>),
      AggOrder(2, DateOfDay(2) - 1, None, Some(PatientAl),
               Some([FACE |-> "Complete"]), <<2>>, <<>>),
      AggOrder(3, DateOfDay(2), Some(FALSE), Some(PatientBo), None, <<>>,
               <<[previous_stage |-> Some(Preauthorization),
                  new_stage |-> DocumentationVerification]>>),
      AggOrder(4, DateOfDay(3) - 1, Some(TRUE), Some(PatientAl),
               Some([FACE |-> "Complete", CMN |-> "Complete"]), <<>>, <<>>),
      AggOrder(5, DateOfDay(1), Some(FALSE), Some(PatientAl),
               Some([FACE |-> "Complete", CMN |-> "Complete"]), <<>>, <<>>),
      AggOrder(6, DateOfDay(9), Some(FALSE), None,
               Some([FACE |-> "Complete"]), <<>>, <<>>) }

AggTables ==
    {c \in UNION {[1..k -> AggPool] : k \in 0..MaxAggOrders} :
        \A i, j \in DOMAIN c : i < j => c[i].id < c[j].id}

DateRangePool ==
    { [from |-> DateOfDay(2), to |-> DateOfDay(3) - 1],
      [from |-> DateOfDay(2), to |-> DateOfDay(24) - 1],
      [from |-> DateOfDay(23), to |-> DateOfDay(23)] }

InitAgg ==
    /\ InitOther
    /\ allOrders = None
    /\ searchParams = NoParams
    /\ activeFilters = <<>>
    /\ stoplightFilter = None
    /\ advancedFilters = EmptyAdvanced
    /\ debouncedTerm = None
    /\ tz = 0
    /\ route = "referrals"
    /\ selectedOrderIds = <<>>
    /\ selectedOrder = None
    /\ showStageModal = FALSE
    /\ showMassUpdateModal = FALSE
    /\ toasts = <<>>
    /\ db \in AggTables
    /\ regressions = <<>>
    /\ patient_notes = <<>>
    /\ invalidated = {}
    /\ stageSave = [page \in Pages |-> Idle]
    /\ massUpdate = Idle
    /\ detail = None
    /\ showDetailStageModal = FALSE
    /\ ops = 0

NextAgg ==
    \/ \E range \in DateRangePool : SetDateRange(range)
    \/ DashboardFetchResolve
    \/ fetchTrendData
    \/ TrendsResolve
    \/ TrendsReject

SpecAgg == InitAgg /\ [][NextAgg]_vars

----------------------------------------------------------------------------
(* The Patients page: the filteredPatients memo.                            *)

\* orders.filter(o => o.patient_id === patient.id)
patientOrdersOf(rows, patient) ==
    SelectSeq(rows, LAMBDA o : o.patient_id = Some(patient.id))

\* new Date(o.updated_at || o.created_at).getTime()
touchedAt(o) == IF o.updated_at # None THEN o.updated_at[1] ELSE o.created_at

\* [...patientOrders].sort(latest first)[0]: the first of the latest orders
latestOrder(patientOrders) ==
    IF Len(patientOrders) = 0 THEN None
    ELSE Some(patientOrders[
             CHOOSE i \in DOMAIN patientOrders :
                 \A j \in DOMAIN patientOrders :
                     \/ touchedAt(patientOrders[j]) < touchedAt(patientOrders[i])
                     \/ touchedAt(patientOrders[j]) = touchedAt(patientOrders[i])
                        /\ i <= j])

ClosedStatuses == {"Delivered", "Closed", "Archived"}

\* const isArchived
isArchived(patient, latest) ==
    \/ patient.archived = Some(TRUE)
    \/ latest # None /\ latest[1].is_archived = Some(TRUE)
    \/ latest # None /\ latest[1].status # None
       /\ latest[1].status[1] \in ClosedStatuses

\* x?.toLowerCase().includes(lowercasedTerm)
fieldIncludes(field, lowercased) ==
    field # None /\ includes(toLowerCase(field[1]), lowercased)

\* the callback of hasMatchingOrder
orderMatches(patient, order, adv, off) ==
    /\ dateStartKeep(order, adv.dateStart)
    /\ dateEndKeep(order, adv.dateEnd, off)
    /\ (Truthy(adv.workflowStage) => order.workflow_stage = adv.workflowStage)
    /\ patientsDocFilterKeep(patient, order, adv.docFilterKey, adv.docFilterStatus)

\* the callback with each referral-level criterion left to any referral of
\* the patient
patientKeepAnyReferral(patient, rows, mode, term, stoplight, adv, off) ==
    LET patientOrders == patientOrdersOf(rows, patient)
        archived == isArchived(patient, latestOrder(patientOrders))
    IN  /\ ~(mode = "active" /\ archived)
        /\ ~(mode = "archived" /\ ~archived)
        /\ Truthy(term) =>
               \/ fieldIncludes(patient.name, toLowerCase(term[1]))
               \/ fieldIncludes(patient.email, toLowerCase(term[1]))
               \/ fieldIncludes(patient.primary_insurance, toLowerCase(term[1]))
        /\ ~(stoplight # None /\ patient.stoplight_status # stoplight)
        /\ (Truthy(adv.firstName) => nameIncludes(patient, adv.firstName[1]))
        /\ (Truthy(adv.lastName) => nameIncludes(patient, adv.lastName[1]))
        /\ dobKeep(patient, adv.dob)
        /\ (Truthy(adv.insurance) =>
               fieldIncludes(patient.primary_insurance, toLowerCase(adv.insurance[1])))
        /\ (\/ adv.dateStart # None \/ adv.dateEnd # None
            \/ Truthy(adv.workflowStage)
            \/ (adv.docFilterKey # None /\ adv.docFilterStatus # None)) =>
               /\ Len(patientOrders) # 0
               /\ \E i \in DOMAIN patientOrders :
                      /\ dateStartKeep(patientOrders[i], adv.dateStart)
                      /\ dateEndKeep(patientOrders[i], adv.dateEnd, off)
               /\ \E i \in DOMAIN patientOrders :
                      Truthy(adv.workflowStage) =>
                          patientOrders[i].workflow_stage = adv.workflowStage
               /\ \E i \in DOMAIN patientOrders :
                      patientsDocFilterKeep(patient, patientOrders[i],
                                            adv.docFilterKey, adv.docFilterStatus)

\* the callback of patients.filter
patientKeep(patient, rows, mode, term, stoplight, adv, off) ==
    LET patientOrders == patientOrdersOf(rows, patient)
        archived == isArchived(patient, latestOrder(patientOrders))
    IN  /\ ~(mode = "active" /\ archived)
        /\ ~(mode = "archived" /\ ~archived)
        /\ Truthy(term) =>
               \/ fieldIncludes(patient.name, toLowerCase(term[1]))
               \/ fieldIncludes(patient.email, toLowerCase(term[1]))
               \/ fieldIncludes(patient.primary_insurance, toLowerCase(term[1]))
        /\ ~(stoplight # None /\ patient.stoplight_status # stoplight)
        /\ (Truthy(adv.firstName) => nameIncludes(patient, adv.firstName[1]))
        /\ (Truthy(adv.lastName) => nameIncludes(patient, adv.lastName[1]))
        /\ dobKeep(patient, adv.dob)
        /\ (Truthy(adv.insurance) =>
               fieldIncludes(patient.primary_insurance, toLowerCase(adv.insurance[1])))
        /\ (\/ adv.dateStart # None \/ adv.dateEnd # None
            \/ Truthy(adv.workflowStage)
            \/ (adv.docFilterKey # None /\ adv.docFilterStatus # None)) =>
               /\ Len(patientOrders) # 0
               /\ \E i \in DOMAIN patientOrders :
                      orderMatches(patient, patientOrders[i], adv, off)

\* (a, b) => (a.name || '').localeCompare(b.name || '')
comparePatients(a, b) ==
    localeCompare(IF a.name = None THEN <<>> ELSE a.name[1],
                  IF b.name = None THEN <<>> ELSE b.name[1])

\* Array.prototype.sort of a list of patients (stable)
sortPatients(seq) ==
    LET rank(i) == 1 + Cardinality({j \in DOMAIN seq :
                        \/ comparePatients(seq[j], seq[i]) < 0
                        \/ comparePatients(seq[j], seq[i]) = 0 /\ j < i})
    IN  [r \in DOMAIN seq |-> seq[CHOOSE i \in DOMAIN seq : rank(i) = r]]

\* the list filteredPatients computes from a patients array and an orders array
filterPatients(patients, rows, mode, term, stoplight, adv, off) ==
    sortPatients(SelectSeq(patients, LAMBDA patient :
        patientKeep(patient, rows, mode, term, stoplight, adv, off)))

----------------------------------------------------------------------------
(* The two list memos as computations over arrays.  Array.prototype.filter  *)
(* and the spread [...a] build a new array and leave their receiver as it   *)
(* is; Array.prototype.sort sorts its receiver in place and returns it.     *)
(* Each memo yields its value and the contents of the fetched arrays after  *)
(* the computation.                                                         *)

\* what the orders memo reads
ordersDeps ==
    [allOrders |-> allOrders, archiveFilter |-> archiveFilter,
     accountFilter |-> accountFilter, activeFilters |-> activeFilters,
     debouncedTerm |-> debouncedTerm, advancedFilters |-> advancedFilters,
     stoplightFilter |-> stoplightFilter]

\* the list the orders memo computes from a fetched array and its other inputs
ordersOf(all, deps) ==
    sort(filterOrders(all, deps.archiveFilter, deps.accountFilter,
                      deps.activeFilters, deps.stoplightFilter,
                      deps.advancedFilters, deps.debouncedTerm, tz))

\* the memo with the sort applied to the fetched array itself
ordersMemoSortingFetched(deps) ==
    IF deps.allOrders = None THEN [value |-> <<>>, fetched |-> None]
    ELSE [value |-> ordersOf(sort(deps.allOrders[1]), deps),
          fetched |-> Some(sort(deps.allOrders[1]))]

\* Referrals.orders: allOrders.filter(...) is a new array, and it is that
\* array which the steps replace and the final sort reorders
ordersMemo(deps) ==
    IF deps.allOrders = None THEN [value |-> <<>>, fetched |-> None]
    ELSE [value |-> ordersOf(deps.allOrders[1], deps),
          fetched |-> deps.allOrders]

\* what the filteredPatients memo reads
patientsDeps ==
    [allData |-> allData, debouncedTerm |-> debouncedTerm,
     archiveFilter |-> patientsFilters.archiveFilter,
     stoplightFilter |-> patientsFilters.stoplightFilter,
     advancedFilters |-> patientsFilters.advancedFilters]

filteredPatientsOf(patients, deps) ==
    filterPatients(patients, deps.allData[1].orders, deps.archiveFilter,
                   deps.debouncedTerm, deps.stoplightFilter,
                   deps.advancedFilters, tz)

\* Patients.filteredPatients: patients.filter(...) is a new array and it is
\* that array which is sorted; latestOrder sorts a copy of patientOrders
filteredPatientsMemo(deps) ==
    IF deps.allData = None THEN [value |-> <<>>, fetched |-> None]
    ELSE [value |-> filteredPatientsOf(deps.allData[1].patients, deps),
          fetched |-> deps.allData]

\* a render of the Referrals page whose memo dependencies have changed
RenderOrders ==
    /\ route = "referrals"
    /\ IF memo.orders = None THEN TRUE ELSE memo.orders[1].deps # ordersDeps
    /\ memo' = [memo EXCEPT !.orders =
                   Some([deps |-> ordersDeps, value |-> ordersMemo(ordersDeps).value])]
    /\ allOrders' = ordersMemo(ordersDeps).fetched
    /\ UNCHANGED <<searchParams, activeFilters, stoplightFilter, advancedFilters,
                   debouncedTerm, tz, route, selectedOrderIds, storeVars,
                   handlerVars, kpiVars, dashboardVars, trendVars, patientsVars,
                   queryVars, requests, bulkVars, docVars,
                   confirmVars, raceVars>>

\* a render of the Patients page whose memo dependencies have changed
RenderFilteredPatients ==
    /\ route = "patients"
    /\ IF memo.filteredPatients = None THEN TRUE
       ELSE memo.filteredPatients[1].deps # patientsDeps
    /\ memo' = [memo EXCEPT !.filteredPatients =
                   Some([deps |-> patientsDeps,
                         value |-> filteredPatientsMemo(patientsDeps).value])]
    /\ allData' = filteredPatientsMemo(patientsDeps).fetched
    /\ UNCHANGED <<filterVars, selectedOrderIds, storeVars, handlerVars, kpiVars,
                   dashboardVars, trendVars, patientsFilters, selectedPatientIds,
                   queryVars, requests, bulkVars, docVars,
                   confirmVars, raceVars>>

\* the query function of ['allDataForPatientsPage'] resolves
PatientsFetchResolve(data) ==
    /\ allData' = Some(data)
    /\ invalidated' = invalidated \ {"allDataForPatientsPage"}
    /\ UNCHANGED <<filterVars, selectedOrderIds, storeVars, selectedOrder,
                   showStageModal, showMassUpdateModal, toasts, stageSave,
                   massUpdate, detail, showDetailStageModal, ops, kpiVars,
                   dashboardVars, trendVars, patientsFilters, selectedPatientIds,
                   memo, queryVars, requests, bulkVars, docVars,
                   confirmVars, raceVars>>

\* the filter setters of the Patients page (setArchiveFilter, setStoplightFilter,
\* setAdvancedFilters) and the effect that empties the selection
setPatientsFilters(filters) ==
    /\ patientsFilters' = filters
    /\ selectedPatientIds' =
           IF filters # patientsFilters THEN <<>> ELSE selectedPatientIds
    /\ UNCHANGED <<filterVars, selectedOrderIds, storeVars, handlerVars, kpiVars,
                   dashboardVars, trendVars, allData, memo, queryVars, requests, bulkVars,
                   docVars,
                   confirmVars, raceVars>>

\* ReferralFilterBar onArchiveFilterChange={setArchiveFilter}
setArchiveFilter(mode) ==
    setPatientsFilters([patientsFilters EXCEPT !.archiveFilter = mode])

\* ReferralFilterBar onStoplightFilterChange={setStoplightFilter}
setStoplightFilter(status) ==
    setPatientsFilters([patientsFilters EXCEPT !.stoplightFilter = status])

\* AdvancedFilterPanel onApply={setAdvancedFilters} / onClear
setAdvancedFilters(filters) ==
    setPatientsFilters([patientsFilters EXCEPT !.advancedFilters = filters])

\* Patients.clearAllFilters
patientsClearAllFilters ==
    setPatientsFilters([archiveFilter |-> "active", stoplightFilter |-> None,
                        advancedFilters |-> EmptyAdvanced])

----------------------------------------------------------------------------
(* Both pages with every render spelled out: an event, then the render that *)
(* recomputes the memo.                                                     *)

MaxPureOrders == 2

\* a patients row: the joined columns plus archived, email and stoplight_status
PatientRow(patient, archived, email, stoplight) ==
    [archived |-> archived, email |-> email, stoplight_status |-> stoplight]
        @@ patient

\* an orders row as the Patients page selects it: no joined patient
OrderRow(oid, patient, archived, stage, date, docs, status, updated) ==
    [status |-> status, updated_at |-> updated] @@
    [Order(oid, archived, Some(patient), stage, None, date, docs, None, None)
        EXCEPT !.patients = None]

PatientRowBo == PatientRow(PatientBo, None, Some(<<"b","o">>), Some("green"))

PatientRowAl == PatientRow(PatientAl, Some(FALSE), None, Some("red"))

PatientRowAlUpper == PatientRow(PatientAlUpper, Some(TRUE), None, None)

PatientsOrderRows ==
    << OrderRow(1, PatientAl, Some(FALSE), Some(DocumentationVerification),
                Some(DateOfDay(2)), Some([FACE |-> "Complete"]), None, None),
       OrderRow(2, PatientAl, Some(TRUE), Some(Preauthorization),
                Some(DateOfDay(3)), None, None, Some(DateOfDay(1))),
       OrderRow(3, PatientBo, Some(FALSE), Some(PatientIntake), None, None,
                Some("Closed"), None) >>

AllDataPool ==
    { [patients |-> <<PatientRowBo, PatientRowAl, PatientRowAlUpper>>,
       orders |-> PatientsOrderRows],
      [patients |-> <<PatientRowAlUpper, PatientRowAl>>,
       orders |-> SubSeq(PatientsOrderRows, 1, 2)],
      [patients |-> <<PatientRowBo>>, orders |-> <<>>],
      [patients |-> <<>>, orders |-> <<>>] }

PureAdvancedPool ==
    { [EmptyAdvanced EXCEPT !.docFilterKey = Some("FACE"),
                            !.docFilterStatus = Some("Complete")],
      [EmptyAdvanced EXCEPT !.dateStart = Some(2)],
      [EmptyAdvanced EXCEPT !.insurance = Some(<<"a", "e">>)] }

PureCollections == Collections(SortPool, MaxPureOrders)

\* the memo of the page shown is up to date
rendered ==
    IF route = "referrals"
    THEN IF memo.orders = None THEN FALSE ELSE memo.orders[1].deps = ordersDeps
    ELSE IF memo.filteredPatients = None THEN FALSE
         ELSE memo.filteredPatients[1].deps = patientsDeps

InitPure ==
    /\ InitOther
    /\ InitHandlers
    /\ route \in {"referrals", "patients"}
    /\ allOrders = None
    /\ searchParams = NoParams
    /\ activeFilters = <<>>
    /\ stoplightFilter = None
    /\ advancedFilters = EmptyAdvanced
    /\ debouncedTerm = None
    /\ tz = 0

NextPure ==
    \/ RenderOrders
    \/ RenderFilteredPatients
    \/ rendered /\ route = "referrals" /\ allOrders = None
       /\ \E data \in PureCollections : FetchResolve(data)
    \/ rendered /\ route = "referrals"
       /\ \E newFilter \in ArchiveOptions : handleArchiveFilterChange(newFilter)
    \/ rendered /\ route = "referrals"
       /\ \E filters \in PureAdvancedPool : onApply(filters)
    \/ rendered /\ \E term \in TermPool : SetTerm(Some(term))
    \/ rendered /\ SetTerm(None)
    \/ rendered /\ route = "patients" /\ allData = None
       /\ \E data \in AllDataPool : PatientsFetchResolve(data)
    \/ rendered /\ route = "patients"
       /\ \E mode \in ArchiveOptions : setArchiveFilter(mode)
    \/ rendered /\ route = "patients"
       /\ \E status \in StoplightOptions : setStoplightFilter(Some(status))
    \/ rendered /\ route = "patients"
       /\ \E filters \in PureAdvancedPool : setAdvancedFilters(filters)
    \/ rendered /\ route = "patients" /\ patientsClearAllFilters

SpecPure == InitPure /\ [][NextPure]_vars

----------------------------------------------------------------------------
(* Section 4.1 of the specification, the filter contract, read on its own:  *)
(* what one referral has to satisfy for each criterion that is active.      *)
(* Dates are UTC instants; day d ends at DateOfDay(d) + MsPerDay - 1.       *)

criteriaMet(o) ==
    LET adv == advancedFilters
        patient == o.patients
    IN  /\ archiveFilter = "active" => o.is_archived # Some(TRUE)
        /\ archiveFilter = "archived" => o.is_archived = Some(TRUE)
        /\ Truthy(accountFilter) =>
               patient # None /\ patient[1].primary_insurance = accountFilter
        /\ Len(activeFilters) > 0 =>
               /\ o.workflow_stage # None
               /\ o.workflow_stage[1] \in Range(activeFilters)
        /\ stoplightFilter # None => o.stoplight_status = stoplightFilter
        /\ Truthy(adv.firstName) =>
               patient # None /\ nameIncludes(patient[1], adv.firstName[1])
        /\ Truthy(adv.lastName) =>
               patient # None /\ nameIncludes(patient[1], adv.lastName[1])
        /\ adv.dob # None =>
               /\ patient # None
               /\ patient[1].dob # None
               /\ toISODate(patient[1].dob[1]) = adv.dob[1]
        /\ Truthy(adv.insurance) =>
               /\ patient # None
               /\ Truthy(patient[1].primary_insurance)
               /\ toLowerCase(patient[1].primary_insurance[1])
                      \in Range(insuranceList(adv.insurance[1]))
        /\ adv.dateStart # None =>
               /\ o.referral_date # None
               /\ o.referral_date[1] >= DateOfDay(adv.dateStart[1])
        /\ adv.dateEnd # None =>
               /\ o.referral_date # None
               /\ o.referral_date[1] <= DateOfDay(adv.dateEnd[1]) + MsPerDay - 1
        /\ Truthy(adv.workflowStage) => o.workflow_stage = adv.workflowStage
        /\ (adv.docFilterKey # None /\ adv.docFilterStatus # None) =>
               LET k == adv.docFilterKey[1]
                   required == isRequired(patient, k)
                   complete == isComplete(o, k)
               IN  \/ adv.docFilterStatus[1] = "Complete" /\ complete
                   \/ adv.docFilterStatus[1] = "Missing" /\ required /\ ~complete
                   \/ adv.docFilterStatus[1] = "Not Required" /\ ~required
        /\ adv.payer_region # None => o.payer_region = adv.payer_region
        /\ adv.rep_name # None => o.rep_name = adv.rep_name
        /\ Truthy(debouncedTerm) => searchKeep(o, debouncedTerm[1])

\* C1: conjunctive correctness.  Every referral of the produced list
\* satisfies each active criterion on its own, also when the field the
\* criterion reads (patient, dob, referral_date, workflow_stage) is absent.
C1_ConjunctiveCorrectness ==
    LET view == orders
    IN
    \A i \in DOMAIN view : criteriaMet(view[i])

\* C2: completeness.  A fetched referral that satisfies every active
\* criterion appears exactly once in the produced list, and the list holds
\* nothing else: a criterion that does not read the patient (payer region,
\* rep name) drops no referral for the lack of a patient.
C2_Completeness ==
    LET view == orders
    IN
    allOrders # None =>
        /\ \A j \in DOMAIN allOrders[1] :
               criteriaMet(allOrders[1][j]) =>
                   Cardinality({i \in DOMAIN view :
                                   view[i] = allOrders[1][j]}) = 1
        /\ \A i \in DOMAIN view :
               /\ view[i] \in Range(allOrders[1])
               /\ criteriaMet(view[i])
               /\ \A k \in DOMAIN view : view[k] = view[i] => k = i

\* C5: the date bounds are inclusive.  With only date bounds active, a
\* referral dated exactly at the last millisecond of day dateEnd is kept, one
\* dated a millisecond later is rejected, and one dated exactly at dateStart
\* is kept: a dated referral with a patient is listed iff
\* DateOfDay(dateStart) <= referral_date <= DateOfDay(dateEnd) + MsPerDay - 1.
C5_DateBoundsInclusive ==
    LET view == orders
    IN
    LET adv == advancedFilters
        onlyDates ==
            /\ adv.dateStart # None \/ adv.dateEnd # None
            /\ [adv EXCEPT !.dateStart = None, !.dateEnd = None] = EmptyAdvanced
            /\ ~Truthy(accountFilter) /\ activeFilters = <<>>
            /\ stoplightFilter = None /\ ~Truthy(debouncedTerm)
    IN  (allOrders # None /\ onlyDates) =>
            \A j \in DOMAIN allOrders[1] :
                LET o == allOrders[1][j]
                IN  (/\ o.patients # None
                     /\ o.referral_date # None
                     /\ archiveKeep(o, archiveFilter)) =>
                        (o \in Range(view) <=>
                            /\ adv.dateStart # None =>
                                   o.referral_date[1]
                                       >= DateOfDay(adv.dateStart[1])
                            /\ adv.dateEnd # None =>
                                   o.referral_date[1]
                                       <= DateOfDay(adv.dateEnd[1])
                                              + MsPerDay - 1)


----------------------------------------------------------------------------
(* The document-requirement filter (C3, C4), read from the referral's data: *)
(* the key is in the patient's required list, the status map holds          *)
(* `Complete` for the key.                                                  *)

inRequiredList(o, k) ==
    /\ o.patients # None
    /\ o.patients[1].required_documents # None
    /\ k \in Range(o.patients[1].required_documents[1])

statusIsComplete(o, k) ==
    /\ o.document_status # None
    /\ k \in DOMAIN o.document_status[1]
    /\ o.document_status[1][k] = "Complete"

\* the document filter the Referrals page has applied, if it is the only one
docFilterApplied(k, st) ==
    /\ advancedFilters =
           [EmptyAdvanced EXCEPT !.docFilterKey = Some(k),
                                 !.docFilterStatus = Some(st)]
    /\ archiveFilter = "active" /\ ~Truthy(accountFilter)
    /\ activeFilters = <<>> /\ stoplightFilter = None
    /\ ~Truthy(debouncedTerm)

\* C3 as stated: a key that is not in the patient's required list is
\* rejected by the filter with status Missing and by the filter with status
\* Complete, whatever the status map holds, and kept only by Not Required.
C3_AbsentKeyOnlyNotRequired ==
    LET view == orders
    IN
    allOrders # None =>
        \A j \in DOMAIN allOrders[1] : \A k \in DocKeys :
            LET o == allOrders[1][j]
            IN  ~inRequiredList(o, k) =>
                    /\ ~docFilterKeep(o, Some(k), Some("Missing"))
                    /\ ~docFilterKeep(o, Some(k), Some("Complete"))
                    /\ docFilterKeep(o, Some(k), Some("Not Required"))
                    /\ (o.patients # None /\ docFilterApplied(k, "Complete"))
                           => o \notin Range(view)

\* C3 amended: a key that is not in the patient's required list is rejected
\* by the filter with status Missing, kept by the filter with status Not
\* Required, and kept by the filter with status Complete exactly when the
\* status map holds Complete for it; the produced list of the Referrals page
\* follows the branch for every referral that has a patient.
C3_AbsentKeyPolicy ==
    LET view == orders
    IN
    allOrders # None =>
        \A j \in DOMAIN allOrders[1] : \A k \in DocKeys :
            LET o == allOrders[1][j]
            IN  ~inRequiredList(o, k) =>
                    /\ ~docFilterKeep(o, Some(k), Some("Missing"))
                    /\ docFilterKeep(o, Some(k), Some("Not Required"))
                    /\ docFilterKeep(o, Some(k), Some("Complete"))
                           <=> statusIsComplete(o, k)
                    /\ o.patients # None =>
                           /\ docFilterApplied(k, "Missing")
                                  => o \notin Range(view)
                           /\ docFilterApplied(k, "Not Required")
                                  => o \in Range(view)
                           /\ docFilterApplied(k, "Complete")
                                  => (o \in Range(view)
                                          <=> statusIsComplete(o, k))

\* a referral is listed under the Complete filter for a key its patient's
\* required list does not hold
C3_Witness ==
    LET view == orders
    IN
    /\ allOrders # None
    /\ \E j \in DOMAIN allOrders[1] : \E k \in DocKeys :
           /\ ~inRequiredList(allOrders[1][j], k)
           /\ docFilterApplied(k, "Complete")
           /\ allOrders[1][j] \in Range(view)

\* C4: the filter keeps a referral iff (status Complete and the map holds
\* Complete for the key) or (status Missing and the key is required and the
\* map does not hold Complete) or (status Not Required and the key is not
\* required); the Patients page's branch decides every referral as the
\* Referrals page's branch does, and the produced list of the Referrals
\* page follows it for every referral that has a patient.
C4_DocFilterPolicy ==
    LET view == orders
    IN
    allOrders # None =>
        \A j \in DOMAIN allOrders[1] : \A k \in DocKeys : \A st \in DocStatuses :
            LET o == allOrders[1][j]
                policy ==
                    \/ st = "Complete" /\ statusIsComplete(o, k)
                    \/ /\ st = "Missing"
                       /\ inRequiredList(o, k)
                       /\ ~statusIsComplete(o, k)
                    \/ st = "Not Required" /\ ~inRequiredList(o, k)
            IN  /\ docFilterKeep(o, Some(k), Some(st)) <=> policy
                /\ o.patients # None =>
                       /\ patientsDocFilterKeep(o.patients[1], o, Some(k), Some(st))
                              <=> docFilterKeep(o, Some(k), Some(st))
                       /\ docFilterApplied(k, st)
                              => (o \in Range(view) <=> policy)

\* a referral with a required key whose status is not Complete is listed
\* under the Missing filter for that key
C4_Witness ==
    LET view == orders
    IN
    /\ allOrders # None
    /\ \E j \in DOMAIN allOrders[1] : \E k \in DocKeys :
           /\ inRequiredList(allOrders[1][j], k)
           /\ ~statusIsComplete(allOrders[1][j], k)
           /\ docFilterApplied(k, "Missing")
           /\ allOrders[1][j] \in Range(view)


----------------------------------------------------------------------------
(* The order of the produced list (C6, C7).  displayName is the name the   *)
(* list is ordered by; fetchedAt is a referral's position in the fetched   *)
(* collection.                                                             *)

displayName(o) ==
    IF o.patients # None /\ o.patients[1].name # None
    THEN o.patients[1].name[1]
    ELSE <<>>

fetchedAt(o) == CHOOSE j \in DOMAIN allOrders[1] : allOrders[1][j] = o

\* C6: of two adjacent referrals of the produced list the first one's
\* patient name is less than or equal to the second one's in the locale
\* order; a referral without patient or name counts as the empty string and
\* so stands before every referral with a non-empty name.
C6_AdjacentOrdered ==
    LET view == orders
    IN
    /\ \A i \in DOMAIN view :
           (i + 1) \in DOMAIN view =>
               localeCompare(displayName(view[i]),
                             displayName(view[i + 1])) <= 0
    /\ \A i, j \in DOMAIN view :
           (displayName(view[i]) = <<>> /\ displayName(view[j]) # <<>>)
               => i < j

\* the list holds a referral without a patient, fetched last and listed
\* first, before two referrals with different names
C6_Witness ==
    LET view == orders
    IN
    /\ allOrders # None
    /\ Len(view) = MaxSortOrders
    /\ view[1].patients = None
    /\ allOrders[1][Len(allOrders[1])] = view[1]
    /\ \E i, j \in DOMAIN view :
           /\ i < j
           /\ displayName(view[i]) # <<>>
           /\ localeCompare(displayName(view[i]), displayName(view[j])) < 0

\* C7 as stated: two listed referrals whose names are equal, differ only
\* in letter case, or are both empty or missing stand in the produced list
\* in the order they had in the fetched collection.
C7_StableIgnoringCase ==
    LET view == orders
    IN
    \A i, j \in DOMAIN view :
        (/\ toLowerCase(displayName(view[i]))
                = toLowerCase(displayName(view[j]))
         /\ fetchedAt(view[i]) < fetchedAt(view[j]))
            => i < j

\* C7 amended: two listed referrals whose names are identical, or both
\* empty or missing, stand in the order they had in the fetched collection;
\* two whose names differ only in letter case stand in the order of the
\* locale comparison (lower case first at the first letter that differs),
\* whatever order they were fetched in.
C7_StableOnEqualNames ==
    LET view == orders
    IN
    \A i, j \in DOMAIN view :
        /\ (/\ displayName(view[i]) = displayName(view[j])
            /\ fetchedAt(view[i]) < fetchedAt(view[j]))
               => i < j
        /\ (/\ toLowerCase(displayName(view[i]))
                   = toLowerCase(displayName(view[j]))
            /\ localeCompare(displayName(view[i]),
                             displayName(view[j])) < 0)
               => i < j

\* two referrals of one patient are listed in fetched order behind a
\* referral fetched between them, and a name in upper case fetched first
\* is listed behind the same name in lower case
C7_Witness ==
    LET view == orders
    IN
    /\ allOrders # None
    /\ \E i, j \in DOMAIN view :
           /\ i < j
           /\ view[i].id # view[j].id
           /\ displayName(view[i]) = displayName(view[j])
           /\ displayName(view[i]) # <<>>
           /\ fetchedAt(view[i]) + 1 < fetchedAt(view[j])
    /\ \E i, j \in DOMAIN view :
           /\ i < j
           /\ displayName(view[i]) # displayName(view[j])
           /\ toLowerCase(displayName(view[i]))
                  = toLowerCase(displayName(view[j]))
           /\ fetchedAt(view[j]) < fetchedAt(view[i])


----------------------------------------------------------------------------
(* Regressions (C8, C9, C10).  position is a stage's place in the          *)
(* configured list; earlier(new, current) says that new stands before      *)
(* current in it.                                                          *)

position(stage) == CHOOSE i \in DOMAIN workflowStages : workflowStages[i] = stage

earlier(new, current) ==
    /\ new \in Range(workflowStages) /\ current \in Range(workflowStages)
    /\ position(new) < position(current)

\* the single stage saves that have been started
started(page) == stageSave[page].pc # "idle"

\* C8: for every pair (current, new) of stages of the configured list the
\* transition is a regression iff new stands before current: from the
\* fourth stage to the second it is one, from the second to the fourth it is
\* not, to the same stage it is not; and every stage save computes its
\* isRegression flag so.
C8_RegressionPredicate ==
    /\ \A current, new \in Range(workflowStages) :
           isBackward(Some(current), new) <=> earlier(new, current)
    /\ isBackward(Some(workflowStages[4]), workflowStages[2])
    /\ ~isBackward(Some(workflowStages[2]), workflowStages[4])
    /\ \A i \in DOMAIN workflowStages :
           ~isBackward(Some(workflowStages[i]), workflowStages[i])
    /\ \A page \in Pages :
           (started(page) /\ stageSave[page].order.workflow_stage # None) =>
               (stageSave[page].isRegression
                    <=> earlier(stageSave[page].newStage,
                                stageSave[page].order.workflow_stage[1]))

\* a save from the fourth stage to the second is under way, flagged
C8_Witness ==
    \E page \in Pages :
        /\ started(page)
        /\ stageSave[page].order.workflow_stage = Some(workflowStages[4])
        /\ stageSave[page].newStage = workflowStages[2]
        /\ stageSave[page].isRegression

\* every regression record moves backward
regressionsMoveBackward ==
    \A i \in DOMAIN regressions :
        /\ regressions[i].previous_stage # None
        /\ earlier(regressions[i].new_stage, regressions[i].previous_stage[1])

\* a step that changes the regressions appends one record, for a stage save
\* whose update has been written and which moves its referral backward
regressionStep ==
    regressions' # regressions =>
        \E page \in Pages :
            LET inv == stageSave[page]
            IN  /\ inv.pc = "insert"
                /\ inv.order.workflow_stage # None
                /\ earlier(inv.newStage, inv.order.workflow_stage[1])
                /\ \E i \in DOMAIN db :
                       /\ db[i].id = inv.order.id
                       /\ db[i].workflow_stage = Some(inv.newStage)
                /\ regressions' = Append(regressions,
                       [order_id |-> inv.order.id,
                        reason |-> inv.regressionReason,
                        notes |-> inv.note,
                        previous_stage |-> inv.order.workflow_stage,
                        new_stage |-> inv.newStage])

\* C9: a Regression record is created only by a stage change that moves
\* backward.  Every record has its new_stage before its previous_stage in
\* the stage list, and the records change only by the insert of a save whose
\* update succeeded and whose new stage is before the referral's stage: a
\* forward or same-stage save, or a failed one, inserts nothing.
C9_RegressionOnlyBackward ==
    [][regressionStep]_vars /\ []regressionsMoveBackward

\* a backward save has finished and left its record; the record names the
\* referral's stage before and after
C9_Witness ==
    \E page \in Pages :
        /\ stageSave[page].pc = "done"
        /\ Len(regressions) = 1
        /\ regressions[1].order_id = stageSave[page].order.id
        /\ regressions[1].new_stage = stageSave[page].newStage

\* C10: every successful stage change that moves a referral to an earlier
\* stage leaves a Regression record for that referral with its previous and
\* its new stage: after a single save whose update succeeded, and after a
\* bulk update, for each updated referral that moved backward.
C10_BackwardChangeRecorded ==
    /\ \A page \in Pages :
           (/\ stageSave[page].pc = "done"
            /\ stageSave[page].order.workflow_stage # None
            /\ earlier(stageSave[page].newStage,
                       stageSave[page].order.workflow_stage[1])) =>
               \E i \in DOMAIN regressions :
                   /\ regressions[i].order_id = stageSave[page].order.id
                   /\ regressions[i].previous_stage
                          = stageSave[page].order.workflow_stage
                   /\ regressions[i].new_stage = stageSave[page].newStage
    /\ massUpdate.pc = "done" =>
           \A j \in DOMAIN massUpdate.ordersToUpdate :
               LET o == massUpdate.ordersToUpdate[j]
               IN  (/\ o.workflow_stage # None
                    /\ earlier(massUpdate.newStage, o.workflow_stage[1])) =>
                       \E i \in DOMAIN regressions :
                           /\ regressions[i].order_id = o.id
                           /\ regressions[i].previous_stage = o.workflow_stage
                           /\ regressions[i].new_stage = massUpdate.newStage

----------------------------------------------------------------------------
(* Section 4.2 of the specification: the relative delta of a count metric.  *)

\* the number x is the integer k
isInteger(x, k) == x.num = k * x.den

\* C11: for a count metric (new referrals, ready, denials, regressions) and
\* non-negative integers prev and current, the delta is 100 when prev = 0 and
\* current > 0, 0 when both are 0, and ((current - prev) / prev) * 100
\* otherwise; so prev=0,current=5 gives 100, prev=0,current=0 gives 0 and
\* prev=10,current=5 gives -50.
C11_RelativeDelta ==
    (kpiArgs # None /\ kpiDelta # None /\ kpiArgs[1].metric \in CountMetrics) =>
        LET current == kpiArgs[1].current
            prev == kpiArgs[1].prev
            delta == kpiDelta[1]
        IN  /\ delta.den > 0
            /\ (prev = 0 /\ current > 0) => isInteger(delta, 100)
            /\ (prev = 0 /\ current = 0) => isInteger(delta, 0)
            /\ prev # 0 => delta.num * prev = (current - prev) * 100 * delta.den
            /\ (prev = 0 /\ current = 5) => isInteger(delta, 100)
            /\ (prev = 10 /\ current = 5) => isInteger(delta, 0 - 50)

\* the delta of new referrals was computed for prev=10, current=5
C11_Witness ==
    /\ kpiArgs # None /\ kpiDelta # None
    /\ kpiArgs[1].metric = "newReferrals"
    /\ kpiArgs[1].prev = 10 /\ kpiArgs[1].current = 5
    /\ isInteger(kpiDelta[1], 0 - 50)

\* C12: for every current window [from, to] the window of the previous-period
\* metrics ends right before from (prevTo + 1 ms = from), has the duration of
\* the current window (prevTo - prevFrom = to - from), and no referral is
\* counted in both periods.
C12_PreviousPeriod ==
    dateRange # None =>
        LET range == dateRange[1]
            view == metrics
        IN  /\ prevTo(range) + 1 = range.from
            /\ prevTo(range) - prevFrom(range) = range.to - range.from
            /\ view # None =>
                   \A i \in DOMAIN view[1].orders, j \in DOMAIN view[1].prevOrders :
                       view[1].orders[i].id # view[1].prevOrders[j].id

\* the ready rule of section 4.2: at least one required document, and every
\* required document Complete in the referral's status map
readyBySpec(o) ==
    /\ \E k \in DocKeys : inRequiredList(o, k)
    /\ \A k \in DocKeys : inRequiredList(o, k) => statusIsComplete(o, k)

\* C13: a referral is counted as ready iff its patient has at least one
\* required document and every required document is Complete in the referral's
\* document_status map (so a referral whose patient has no required document
\* is never counted); the dashboard metric and the Docs Ready counts of the
\* Trends buckets both count exactly these referrals.
C13_ReadyCount ==
    LET view == metrics
    IN  /\ view # None =>
               view[1].kpis["readyForPar"].value =
                   Cardinality({i \in DOMAIN view[1].orders :
                                   readyBySpec(view[1].orders[i])})
        /\ trendData # <<>> =>
               sum([j \in DOMAIN trendData |-> trendData[j].DocsReady]) =
                   Cardinality({i \in DOMAIN db : readyBySpec(db[i])})

\* both pages show counts over a table that holds a ready referral and one
\* whose patient has no required document
C13_Witness ==
    LET view == metrics
    IN  /\ view # None /\ trendData # <<>>
        /\ view[1].kpis["readyForPar"].value = 1
        /\ \E i \in DOMAIN view[1].orders :
               /\ view[1].orders[i].patients # None
               /\ view[1].orders[i].patients[1].required_documents = Some(<<>>)
        /\ sum([j \in DOMAIN trendData |-> trendData[j].DocsReady]) >= 1
        /\ \E i \in DOMAIN db : ~readyBySpec(db[i])

\* the code unit of each character of a week key
CodeUnit ==
    ("-" :> 45) @@ ("0" :> 48) @@ ("1" :> 49) @@ ("2" :> 50) @@ ("3" :> 51) @@
    ("4" :> 52) @@ ("5" :> 53) @@ ("6" :> 54) @@ ("7" :> 55) @@ ("8" :> 56) @@
    ("9" :> 57) @@ ("W" :> 87)

\* key a is before key b, character by character
keyBefore(a, b) ==
    \E i \in DOMAIN b :
        /\ \A j \in 1..(i - 1) : j \in DOMAIN a /\ a[j] = b[j]
        /\ (i \notin DOMAIN a \/ CodeUnit[a[i]] < CodeUnit[b[i]])

\* the fetched referrals of week key w
ofWeek(w) == {i \in DOMAIN db : getWeek(db[i].created_at) = w}

----------------------------------------------------------------------------
(* Section 4.1 of the specification: the filter has no side effects.        *)

\* a step that computes a list memo leaves the fetched collections and every
\* filter input as they were
renderStep ==
    memo' # memo =>
        /\ allOrders' = allOrders
        /\ allData' = allData
        /\ UNCHANGED <<searchParams, activeFilters, stoplightFilter,
                       advancedFilters, debouncedTerm, patientsFilters>>

\* the cached list is what the memo yields again for the same inputs, and what
\* it yields when it is run on that list with the same criteria
memoIdempotent ==
    /\ memo.orders # None =>
           LET m == memo.orders[1]
           IN  /\ ordersMemo(m.deps).value = m.value
               /\ m.deps.allOrders # None => ordersOf(m.value, m.deps) = m.value
    /\ memo.filteredPatients # None =>
           LET m == memo.filteredPatients[1]
           IN  /\ filteredPatientsMemo(m.deps).value = m.value
               /\ m.deps.allData # None =>
                      filteredPatientsOf(m.value, m.deps) = m.value

----------------------------------------------------------------------------
(* The two list queries as the query cache runs them.  A query has at most  *)
(* one fetch in flight; its data is undefined until a fetch resolves, is    *)
(* replaced when one resolves and is kept when one throws.  A refetch that  *)
(* starts while data is cached drops the fetch in flight; one that starts   *)
(* before any data joins the fetch in flight.                               *)

MaxFetches == 2

\* what one Record Store read returns: { data, error }
Returned(rows) == [data |-> Some(rows), error |-> None]

Failed == [data |-> None, error |-> Some("error")]

\* data || []
orEmpty(data) == IF data = None THEN <<>> ELSE data[1]

\* queryFn of ['referrals_direct_all']: None stands for the throw
referralsQueryFn(res) ==
    IF res.error # None THEN None ELSE Some(orEmpty(res.data))

\* a queryFn that returns what it has of a cycle whose orders read failed
allDataQueryFnKeepingPatients(patientsRes, ordersRes) ==
    IF patientsRes.error # None THEN None
    ELSE Some([patients |-> orEmpty(patientsRes.data),
               orders |-> orEmpty(ordersRes.data)])

\* queryFn of ['allDataForPatientsPage'] after Promise.all has settled
allDataQueryFn(patientsRes, ordersRes) ==
    IF patientsRes.error # None THEN None
    ELSE IF ordersRes.error # None THEN None
    ELSE Some([patients |-> orEmpty(patientsRes.data),
               orders |-> orEmpty(ordersRes.data)])

\* the parts of the state a fetch leaves alone
fetchFrame ==
    UNCHANGED <<searchParams, activeFilters, stoplightFilter, advancedFilters,
                debouncedTerm, tz, route, selectedOrderIds, storeVars,
                selectedOrder, showStageModal, showMassUpdateModal, toasts,
                stageSave, massUpdate, detail, showDetailStageModal, ops,
                kpiVars, dashboardVars, trendVars, patientsFilters,
                selectedPatientIds, memo, patientsTable, requests, bulkVars,
                   docVars,
                   confirmVars, raceVars>>

\* mount, invalidation or window focus starts the Referrals query
ReferralsFetch ==
    /\ route = "referrals"
    /\ fetching.started < MaxFetches
    /\ fetching.referrals = None \/ allOrders # None
    /\ fetching' = [fetching EXCEPT !.referrals = Some([id |-> fetching.started + 1]),
                                    !.started = @ + 1]
    /\ UNCHANGED <<allOrders, allData, invalidated, fetchLog, docVars,
                   confirmVars, raceVars>>
    /\ fetchFrame

\* the orders read comes back and the queryFn returns or throws
ReferralsFetchSettle(res) ==
    /\ fetching.referrals # None
    /\ LET result == referralsQueryFn(res)
       IN  /\ allOrders' = IF result = None THEN allOrders ELSE result
           /\ fetchLog' = Append(fetchLog, [key |-> "referrals_direct_all",
                                            id |-> fetching.referrals[1].id,
                                            reads |-> <<res>>,
                                            result |-> result])
    /\ fetching' = [fetching EXCEPT !.referrals = None]
    /\ invalidated' = invalidated \ {"referrals_direct_all"}
    /\ UNCHANGED allData
    /\ fetchFrame

\* mount, invalidation or window focus starts the Patients query
PatientsFetch ==
    /\ route = "patients"
    /\ fetching.started < MaxFetches
    /\ fetching.patients = None \/ allData # None
    /\ fetching' = [fetching EXCEPT
                       !.patients = Some([id |-> fetching.started + 1,
                                          patients |-> None, orders |-> None]),
                       !.started = @ + 1]
    /\ UNCHANGED <<allOrders, allData, invalidated, fetchLog, docVars,
                   confirmVars, raceVars>>
    /\ fetchFrame

\* one of the two reads of Promise.all comes back; when it is the second,
\* the queryFn goes on to return or throw
PatientsReadReturns(table, res) ==
    /\ fetching.patients # None
    /\ fetching.patients[1][table] = None
    /\ LET cycle == [fetching.patients[1] EXCEPT ![table] = Some(res)]
       IN  IF cycle.patients = None \/ cycle.orders = None
           THEN /\ fetching' = [fetching EXCEPT !.patients = Some(cycle)]
                /\ UNCHANGED <<allData, fetchLog, invalidated, docVars,
                   confirmVars, raceVars>>
           ELSE LET result == allDataQueryFn(cycle.patients[1], cycle.orders[1])
                IN  /\ allData' = IF result = None THEN allData ELSE result
                    /\ fetchLog' =
                           Append(fetchLog,
                                  [key |-> "allDataForPatientsPage",
                                   id |-> cycle.id,
                                   reads |-> <<cycle.patients[1], cycle.orders[1]>>,
                                   result |-> result])
                    /\ fetching' = [fetching EXCEPT !.patients = None]
                    /\ invalidated' = invalidated \ {"allDataForPatientsPage"}
    /\ UNCHANGED allOrders
    /\ fetchFrame

\* const filteredPatients = useMemo(...)
filteredPatients == filteredPatientsMemo(patientsDeps).value

MaxFetchOrders == 1

FetchCollections == Collections(SortPool, MaxFetchOrders)

PatientsReads == {<<PatientRowBo>>, <<PatientRowBo, PatientRowAl>>}

OrdersReads == {<<>>, SubSeq(PatientsOrderRows, 1, 2), PatientsOrderRows}

NextFetch ==
    \/ ReferralsFetch
    \/ \E data \in FetchCollections : ReferralsFetchSettle(Returned(data))
    \/ ReferralsFetchSettle(Failed)
    \/ route = "referrals"
       /\ \E newFilter \in ArchiveOptions : handleArchiveFilterChange(newFilter)
    \/ route = "referrals" /\ \E term \in TermPool : SetTerm(Some(term))
    \/ PatientsFetch
    \/ \E rows \in PatientsReads : PatientsReadReturns("patients", Returned(rows))
    \/ \E rows \in OrdersReads : PatientsReadReturns("orders", Returned(rows))
    \/ \E table \in {"patients", "orders"} : PatientsReadReturns(table, Failed)
    \/ route = "patients" /\ \E mode \in ArchiveOptions : setArchiveFilter(mode)

SpecFetch == InitPure /\ [][NextFetch]_vars


----------------------------------------------------------------------------
(* Snapshot discipline of the two list queries.                            *)

\* every read of the settled fetch came back without an error
fullyResolved(fetch) ==
    \A i \in DOMAIN fetch.reads : fetch.reads[i].error = None

\* what the reads of a settled fetch carried
snapshotOf(fetch) ==
    IF fetch.key = "referrals_direct_all"
    THEN fetch.reads[1].data[1]
    ELSE [patients |-> fetch.reads[1].data[1], orders |-> fetch.reads[2].data[1]]

latestSnapshot(key) ==
    LET done == SelectSeq(fetchLog,
                          LAMBDA fetch : fetch.key = key /\ fullyResolved(fetch))
    IN  IF done = <<>> THEN None ELSE Some(snapshotOf(done[Len(done)]))

\* C16: in every interleaving of fetch starts, resolutions, failures and
\* filter changes, what each page filters is the result of the fetch that
\* resolved last with all of its reads, and the view is the empty list while
\* there is none; on the Patients page both collections are those of that one
\* fetch, and a fetch with a failed read contributes neither collection.
C16_SnapshotDiscipline ==
    /\ allOrders = latestSnapshot("referrals_direct_all")
    /\ allData = latestSnapshot("allDataForPatientsPage")
    /\ latestSnapshot("referrals_direct_all") = None => orders = <<>>
    /\ latestSnapshot("allDataForPatientsPage") = None => filteredPatients = <<>>

\* the Patients query resolved, a refetch then returned other patients but
\* failed on orders, the archive filter was changed, and a row is shown
C16_Witness ==
    /\ Len(fetchLog) = 2
    /\ fetchLog[1].key = "allDataForPatientsPage"
    /\ fullyResolved(fetchLog[1])
    /\ fetchLog[2].reads[1].error = None
    /\ fetchLog[2].reads[2].error # None
    /\ fetchLog[2].reads[1].data # fetchLog[1].reads[1].data
    /\ patientsFilters.archiveFilter # "active"
    /\ filteredPatients # <<>>


----------------------------------------------------------------------------
(* Referrals page: the bulk document update.  The rows are changed by the   *)
(* stored procedure bulk_update_order_docs, which is not part of the page;  *)
(* what it writes is left out, the request and its answer are kept.         *)

\* BulkActionsFooter onUpdateDocs (the footer shows while rows are selected)
openMassDocUpdateModal ==
    /\ route = "referrals"
    /\ Len(selectedOrderIds) > 0
    /\ showMassDocUpdateModal' = TRUE
    /\ UNCHANGED <<filterVars, selectedOrderIds, storeVars, handlerVars,
                   kpiVars, dashboardVars, trendVars, patientsVars, memo,
                   queryVars, requests, massDocUpdate, showArchiveConfirm,
                   isArchiving, bulkArchive, docVars,
                   confirmVars, raceVars>>

\* handleMassDocUpdate up to its await: the procedure call is sent
handleMassDocUpdate(payload) ==
    /\ showMassDocUpdateModal
    /\ ~(Len(selectedOrderIds) = 0 \/ Len(payload.docKeys) = 0)
    /\ massDocUpdate.pc \in {"idle", "done", "failed"}
    /\ ops < MaxOps
    /\ ops' = ops + 1
    /\ massDocUpdate' = [pc |-> "rpc", op |-> ops + 1, ids |-> selectedOrderIds,
                         docKeys |-> payload.docKeys]
    /\ requests' = Append(requests,
           request("handleMassDocUpdate", ops + 1, "bulk_update_order_docs",
                   "rpc", selectedOrderIds))
    /\ UNCHANGED <<filterVars, selectedOrderIds, storeVars, selectedOrder,
                   showStageModal, showMassUpdateModal, toasts, invalidated,
                   stageSave, massUpdate, detail, showDetailStageModal,
                   kpiVars, dashboardVars, trendVars, patientsVars, memo,
                   queryVars, showMassDocUpdateModal, showArchiveConfirm,
                   isArchiving, bulkArchive, docVars,
                   confirmVars, raceVars>>

\* the procedure call returned: the rest of handleMassDocUpdate
MassDocUpdateSettle(ok) ==
    /\ massDocUpdate.pc = "rpc"
    /\ IF ~ok
       THEN /\ toasts' = Append(toasts,
                   toast(<<"Failed to update documents.">>, "err"))
            /\ massDocUpdate' = [massDocUpdate EXCEPT !.pc = "failed"]
            /\ UNCHANGED <<invalidated, selectedOrderIds, showMassDocUpdateModal>>
       ELSE /\ toasts' = Append(toasts,
                   toast(<<"document(s) for referrals updated.",
                           Len(massDocUpdate.docKeys), Len(massDocUpdate.ids)>>,
                         "ok"))
            /\ invalidated' = invalidated \cup {"referrals_direct_all"}
            /\ selectedOrderIds' = <<>>
            /\ showMassDocUpdateModal' = FALSE
            /\ massDocUpdate' = [massDocUpdate EXCEPT !.pc = "done"]
    /\ UNCHANGED <<filterVars, storeVars, selectedOrder, showStageModal,
                   showMassUpdateModal, stageSave, massUpdate, detail,
                   showDetailStageModal, ops, kpiVars, dashboardVars, trendVars,
                   patientsVars, memo, queryVars, requests, showArchiveConfirm,
                   isArchiving, bulkArchive, docVars,
                   confirmVars, raceVars>>

\* What MassDocUpdateModal hands to onConfirm
MassDocPayloads ==
    {[docKeys |-> keys, note |-> <<"n">>] : keys \in {<<"FACE">>, <<"FACE", "CMN">>}}

----------------------------------------------------------------------------
(* Patients page: selection and the bulk archive. *)

\* Patients.handleToggleSelection
patientsHandleToggleSelection(patientId) ==
    /\ route = "patients"
    /\ selectedPatientIds' =
           IF patientId \in Range(selectedPatientIds)
           THEN SelectSeq(selectedPatientIds, LAMBDA id : id # patientId)
           ELSE Append(selectedPatientIds, patientId)
    /\ UNCHANGED <<filterVars, selectedOrderIds, storeVars, handlerVars,
                   kpiVars, dashboardVars, trendVars, allData, patientsFilters,
                   memo, queryVars, requests, bulkVars, docVars,
                   confirmVars, raceVars>>

\* PatientBulkActionsFooter onArchive (the footer shows while rows are selected)
openArchiveConfirm ==
    /\ route = "patients"
    /\ Len(selectedPatientIds) > 0
    /\ showArchiveConfirm' = TRUE
    /\ UNCHANGED <<filterVars, selectedOrderIds, storeVars, handlerVars,
                   kpiVars, dashboardVars, trendVars, patientsVars, memo,
                   queryVars, requests, showMassDocUpdateModal, massDocUpdate,
                   isArchiving, bulkArchive, docVars,
                   confirmVars, raceVars>>

\* update({ archived: true }).in('id', ids)
archivePatients(rows, ids) ==
    [i \in DOMAIN rows |->
        IF rows[i].id \in ids THEN [rows[i] EXCEPT !.archived = Some(TRUE)]
        ELSE rows[i]]

\* handleBulkArchive up to its await: the update request is sent
handleBulkArchive ==
    /\ showArchiveConfirm
    /\ ~isArchiving
    /\ ops < MaxOps
    /\ ops' = ops + 1
    /\ isArchiving' = TRUE
    /\ bulkArchive' = [pc |-> "update", op |-> ops + 1, ids |-> selectedPatientIds]
    /\ requests' = Append(requests,
           request("handleBulkArchive", ops + 1, "patients", "update",
                   selectedPatientIds))
    /\ UNCHANGED <<filterVars, selectedOrderIds, storeVars, selectedOrder,
                   showStageModal, showMassUpdateModal, toasts, invalidated,
                   stageSave, massUpdate, detail, showDetailStageModal,
                   kpiVars, dashboardVars, trendVars, patientsVars, memo,
                   queryVars, showMassDocUpdateModal, massDocUpdate,
                   showArchiveConfirm, docVars,
                   confirmVars, raceVars>>

\* the update request returned: the rest of handleBulkArchive
BulkArchiveSettle(ok) ==
    /\ bulkArchive.pc = "update"
    /\ IF ~ok
       THEN /\ toasts' = Append(toasts,
                   toast(<<"Failed to archive patients.">>, "err"))
            /\ bulkArchive' = [bulkArchive EXCEPT !.pc = "failed"]
            /\ UNCHANGED <<invalidated, selectedPatientIds, patientsTable>>
       ELSE /\ patientsTable' = archivePatients(patientsTable,
                                                Range(bulkArchive.ids))
            /\ toasts' = Append(toasts,
                   toast(<<"patients have been archived.", Len(bulkArchive.ids)>>,
                         "ok"))
            /\ invalidated' = invalidated \cup {"allDataForPatientsPage"}
            /\ selectedPatientIds' = <<>>
            /\ bulkArchive' = [bulkArchive EXCEPT !.pc = "done"]
    /\ isArchiving' = FALSE
    /\ showArchiveConfirm' = FALSE
    /\ UNCHANGED <<filterVars, selectedOrderIds, storeVars, selectedOrder,
                   showStageModal, showMassUpdateModal, stageSave, massUpdate,
                   detail, showDetailStageModal, ops, kpiVars, dashboardVars,
                   trendVars, allData, patientsFilters, memo, fetching, fetchLog,
                   requests, showMassDocUpdateModal, massDocUpdate, docVars,
                   confirmVars, raceVars>>

----------------------------------------------------------------------------
(* The three bulk operations over a Record Store that answers either way. *)

BulkPatientsTable == <<PatientRowBo, PatientRowAl>>

InitBulk ==
    /\ InitKpi /\ InitDashboard /\ InitTrends /\ InitPatients
    /\ memo = EmptyMemo
    /\ InitBulkUi
    /\ fetching = NoFetch /\ fetchLog = <<>>
    /\ allOrders = None
    /\ searchParams = NoParams
    /\ activeFilters = <<>>
    /\ stoplightFilter = None
    /\ advancedFilters = EmptyAdvanced
    /\ debouncedTerm = None
    /\ tz = 0
    /\ selectedOrderIds = <<>>
    /\ selectedOrder = None
    /\ showStageModal = FALSE
    /\ showMassUpdateModal = FALSE
    /\ toasts = <<>>
    /\ regressions = <<>>
    /\ patient_notes = <<>>
    /\ invalidated = {}
    /\ stageSave = [page \in Pages |-> Idle]
    /\ massUpdate = Idle
    /\ detail = None
    /\ showDetailStageModal = FALSE
    /\ ops = 0
    /\ \/ route = "referrals" /\ db \in Tables(MaxStageOrders) /\ patientsTable = <<>>
       \/ route = "patients" /\ db = <<>> /\ patientsTable = BulkPatientsTable

NextBulk ==
    \/ route = "referrals" /\ allOrders = None /\ FetchResolve(db)
    \/ LET view == orders
       IN  \E i \in DOMAIN view : handleToggleSelection(view[i].id)
    \/ openMassUpdateModal
    \/ \E payload \in MassPayloads : handleMassStageUpdate(payload)
    \/ MassUpdateFail
    \/ MassUpdateOk
    \/ \E ok \in BOOLEAN : MassUpdateNotesDone(ok)
    \/ openMassDocUpdateModal
    \/ \E payload \in MassDocPayloads : handleMassDocUpdate(payload)
    \/ \E ok \in BOOLEAN : MassDocUpdateSettle(ok)
    \/ route = "patients" /\ allData = None
       /\ PatientsFetchResolve([patients |-> patientsTable, orders |-> db])
    \/ LET view == filteredPatients
       IN  \E i \in DOMAIN view : patientsHandleToggleSelection(view[i].id)
    \/ openArchiveConfirm
    \/ handleBulkArchive
    \/ \E ok \in BOOLEAN : BulkArchiveSettle(ok)

SpecBulk == InitBulk /\ [][NextBulk]_vars


----------------------------------------------------------------------------
(* The bulk operations as request/acknowledgment pairs.                    *)

\* the requests the invocation of a bulk handler has sent
sentBy(handler) == SelectSeq(requests, LAMBDA r : r.op = handler.op)

\* the invocation has sent one request, which carries the ids it was
\* confirmed with
singleRequest(handler) ==
    handler.pc # "idle" =>
        /\ Len(sentBy(handler)) = 1
        /\ sentBy(handler)[1].ids = handler.ids

\* C17: a confirmed bulk operation (mass stage update, mass document update,
\* bulk patient archive) sends exactly one request to the Record Store, and
\* that request carries the whole list of selected ids.
C17_SingleRequest ==
    /\ singleRequest(massUpdate)
    /\ singleRequest(massDocUpdate)
    /\ singleRequest(bulkArchive)

\* the same for the two operations other than the mass stage update
singleRequestDocsAndArchive ==
    singleRequest(massDocUpdate) /\ singleRequest(bulkArchive)

\* a mass document update and a bulk archive have been answered
docsAndArchiveAnswered ==
    \/ massDocUpdate.pc \in {"done", "failed"} /\ Len(massDocUpdate.ids) > 1
    \/ bulkArchive.pc \in {"done", "failed"} /\ Len(bulkArchive.ids) > 1


----------------------------------------------------------------------------
(* The toasts of the bulk operations.                                      *)

\* a step of a bulk handler from position pc to position next adds no toast
\* before the request is answered and exactly one when it is
oneToast(pc, next) ==
    pc # next =>
        IF next = "failed"
        THEN toasts' = Append(toasts, toasts'[Len(toasts')])
             /\ toasts'[Len(toasts')].kind = "err"
        ELSE IF next = "done"
        THEN toasts' = Append(toasts, toasts'[Len(toasts')])
             /\ toasts'[Len(toasts')].kind = "ok"
        ELSE toasts' = toasts

\* on failure the selection and the open modal are kept, on success the
\* selection is cleared
selectionAndModal(pc, next, selection, nextSelection, modal, nextModal) ==
    /\ pc # next /\ next = "failed" =>
           nextSelection = selection /\ modal /\ nextModal
    /\ pc # next /\ next = "done" => nextSelection = <<>>

bulkOutcome(pc, next, selection, nextSelection, modal, nextModal) ==
    /\ oneToast(pc, next)
    /\ selectionAndModal(pc, next, selection, nextSelection, modal, nextModal)

\* C18: every confirmed bulk operation ends with exactly one toast, an "ok"
\* toast when the Record Store acknowledged the request and an "err" toast
\* otherwise; when it failed the selection and the open modal are as before,
\* when it succeeded the selection is empty.
C18_OneToastPerBatch ==
    [][/\ bulkOutcome(massUpdate.pc, massUpdate'.pc,
                      selectedOrderIds, selectedOrderIds',
                      showMassUpdateModal, showMassUpdateModal')
       /\ bulkOutcome(massDocUpdate.pc, massDocUpdate'.pc,
                      selectedOrderIds, selectedOrderIds',
                      showMassDocUpdateModal, showMassDocUpdateModal')
       /\ bulkOutcome(bulkArchive.pc, bulkArchive'.pc,
                      selectedPatientIds, selectedPatientIds',
                      showArchiveConfirm, showArchiveConfirm')]_vars

\* the part of it that all three operations have: one toast per batch
oneToastPerBatch ==
    [][/\ oneToast(massUpdate.pc, massUpdate'.pc)
       /\ oneToast(massDocUpdate.pc, massDocUpdate'.pc)
       /\ oneToast(bulkArchive.pc, bulkArchive'.pc)]_vars

\* the two operations of the Referrals page keep selection and modal on failure
referralsKeepSelectionAndModal ==
    [][/\ selectionAndModal(massUpdate.pc, massUpdate'.pc,
                            selectedOrderIds, selectedOrderIds',
                            showMassUpdateModal, showMassUpdateModal')
       /\ selectionAndModal(massDocUpdate.pc, massDocUpdate'.pc,
                            selectedOrderIds, selectedOrderIds',
                            showMassDocUpdateModal, showMassDocUpdateModal')]_vars


----------------------------------------------------------------------------
(* DocumentationRequirements: the component gets patient and order as      *)
(* props, keeps a local status per required key and writes a toggled       *)
(* status to the orders row.  writeAuditLog is outside the component and   *)
(* is left out.                                                            *)

\* patient.required_documents || []
requiredDocKeys(patient) ==
    IF patient.required_documents = None THEN <<>>
    ELSE patient.required_documents[1]

\* order?.document_status?.[key]
documentStatusOf(order, key) ==
    IF order = None THEN None
    ELSE IF order[1].document_status = None THEN None
    ELSE IF key \notin DOMAIN order[1].document_status[1] THEN None
    ELSE Some(order[1].document_status[1][key])

\* the effect on [order, requiredDocKeys]
initialStatuses(patient, order) ==
    [key \in Range(requiredDocKeys(patient)) |->
        IF documentStatusOf(order, key) = Some("Complete")
        THEN "complete" ELSE "missing"]

\* { ...currentStatus, [key]: nextStatus === 'complete' ? 'Complete' : 'Missing' }
updatedStatus(order, key, nextStatus) ==
    LET currentStatus == IF order.document_status = None THEN <<>>
                         ELSE order.document_status[1]
    IN  (key :> (IF nextStatus = "complete" THEN "Complete" ELSE "Missing"))
            @@ currentStatus

\* update({ document_status }).eq('id', id)
updateDocumentStatus(rows, id, status) ==
    [i \in DOMAIN rows |->
        IF rows[i].id = id THEN [rows[i] EXCEPT !.document_status = Some(status)]
        ELSE rows[i]]

\* the query keys onSuccess invalidates
docInvalidations ==
    {"patient_details", "referrals_direct_all", "compliance_orders",
     "dashboard_orders", "dashboard_metrics", "account_overview"}

\* the parts of the state the component leaves alone
docFrame ==
    UNCHANGED <<filterVars, selectedOrderIds, regressions, patient_notes,
                selectedOrder, showStageModal, showMassUpdateModal, stageSave,
                massUpdate, showDetailStageModal, kpiVars, dashboardVars,
                trendVars, patientsVars, memo, queryVars, bulkVars,
                   confirmVars, raceVars>>

\* the parent renders the component with the patient and its latest order;
\* the effect runs when the props are new
RenderDocumentationRequirements(patient) ==
    /\ route = "detail"
    /\ docToggle.pc \in {"idle", "done", "failed", "settled"}
    /\ detail' = Some([patient |-> patient, order |-> latestOrderOf(db, patient.id)])
    /\ detail' # detail
    /\ docsState' = initialStatuses(patient, detail'[1].order)
    /\ invalidated' = invalidated \ {"patient_details"}
    /\ UNCHANGED <<db, toasts, ops, requests, docToggle>>
    /\ docFrame

\* toggle(key) up to the await of mutateAsync: the optimistic update, then
\* mutationFn either throws for want of an order, and the catch runs, or
\* sends the update
toggle(key) ==
    /\ detail # None
    /\ key \in DOMAIN docsState
    /\ docToggle.pc \in {"idle", "done", "failed", "settled"}
    /\ ops < MaxOps
    /\ ops' = ops + 1
    /\ LET prevStatus == docsState[key]
           nextStatus == IF prevStatus = "complete" THEN "missing" ELSE "complete"
           order == detail[1].order
       IN  IF order = None
           THEN /\ docsState' = [[docsState EXCEPT ![key] = nextStatus]
                                    EXCEPT ![key] = prevStatus]
                /\ toasts' = Append(toasts, toast(<<"Update failed">>, "err"))
                /\ docToggle' = [pc |-> "failed", op |-> ops + 1, key |-> key,
                                 prevStatus |-> prevStatus,
                                 nextStatus |-> nextStatus]
                /\ UNCHANGED requests
           ELSE /\ docsState' = [docsState EXCEPT ![key] = nextStatus]
                /\ requests' = Append(requests,
                       request("toggle", ops + 1, "orders", "update",
                               <<order[1].id>>))
                /\ docToggle' = [pc |-> "mutate", op |-> ops + 1, key |-> key,
                                 prevStatus |-> prevStatus,
                                 nextStatus |-> nextStatus]
                /\ UNCHANGED toasts
    /\ UNCHANGED <<db, invalidated, detail>>
    /\ docFrame

\* the update was acknowledged: onSuccess and the toast with its Undo button
ToggleMutationOk ==
    /\ docToggle.pc = "mutate"
    /\ db' = updateDocumentStatus(db, detail[1].order[1].id,
                 updatedStatus(detail[1].order[1], docToggle.key,
                               docToggle.nextStatus))
    /\ invalidated' = invalidated \cup docInvalidations
    /\ toasts' = Append(toasts,
           toast(<<"marked", docToggle.key, docToggle.nextStatus>>, "ok"))
    /\ docToggle' = [docToggle EXCEPT !.pc = "done"]
    /\ UNCHANGED <<docsState, detail, ops, requests>>
    /\ docFrame

\* undo() without its mutation.mutate
undoWithoutMutation(state, inv, log, order) ==
    [docs |-> [state EXCEPT ![inv.key] = inv.prevStatus],
     requests |-> log,
     pc |-> "undo"]

\* undo(): setDocs back to prevStatus and mutation.mutate({ key, nextStatus:
\* prevStatus }), which sends an update of its own
undo(state, inv, log, order) ==
    [docs |-> [state EXCEPT ![inv.key] = inv.prevStatus],
     requests |-> Append(log, request("undo", inv.op, "orders", "update",
                                      <<order.id>>)),
     pc |-> "undo"]

\* the update failed: the catch block runs undo() and shows the toast
ToggleMutationFail ==
    /\ docToggle.pc = "mutate"
    /\ LET after == undo(docsState, docToggle, requests, detail[1].order[1])
       IN  /\ docsState' = after.docs
           /\ requests' = after.requests
           /\ docToggle' = [docToggle EXCEPT !.pc = after.pc]
    /\ toasts' = Append(toasts, toast(<<"Update failed">>, "err"))
    /\ UNCHANGED <<db, invalidated, detail, ops>>
    /\ docFrame

\* the update sent by undo() was answered: onSuccess when acknowledged,
\* nothing otherwise (mutate does not rethrow)
UndoMutationSettle(ok) ==
    /\ docToggle.pc = "undo"
    /\ IF ok
       THEN /\ db' = updateDocumentStatus(db, detail[1].order[1].id,
                         updatedStatus(detail[1].order[1], docToggle.key,
                                       docToggle.prevStatus))
            /\ invalidated' = invalidated \cup docInvalidations
       ELSE UNCHANGED <<db, invalidated>>
    /\ docToggle' = [docToggle EXCEPT !.pc = "settled"]
    /\ UNCHANGED <<docsState, toasts, detail, ops, requests>>
    /\ docFrame

\* the Undo button of the success toast
clickUndo ==
    /\ docToggle.pc = "done"
    /\ detail[1].order # None
    /\ docToggle.key \in DOMAIN docsState
    /\ LET after == undo(docsState, docToggle, requests, detail[1].order[1])
       IN  /\ docsState' = after.docs
           /\ requests' = after.requests
           /\ docToggle' = [docToggle EXCEPT !.pc = after.pc]
    /\ UNCHANGED <<db, invalidated, detail, ops, toasts>>
    /\ docFrame

TogglePatients == {PatientAl, PatientNoName}

InitToggle == InitStage /\ route = "detail"

NextToggle ==
    \/ \E patient \in TogglePatients : RenderDocumentationRequirements(patient)
    \/ \E key \in DocKeys : toggle(key)
    \/ ToggleMutationOk
    \/ ToggleMutationFail
    \/ \E ok \in BOOLEAN : UndoMutationSettle(ok)
    \/ clickUndo

SpecToggle == InitToggle /\ [][NextToggle]_vars


----------------------------------------------------------------------------
(* A document toggle whose update fails.                                   *)

\* this step shows the failure notification of a toggle
failureShown == toasts' = Append(toasts, toast(<<"Update failed">>, "err"))

\* this step is the user's: a toggle or a click on Undo
userActs ==
    \/ ops' # ops
    \/ docToggle.pc = "done" /\ docToggle'.pc = "undo"

\* the failed toggle leaves the key's local status as it was before it
revertsLocally ==
    [][failureShown =>
          /\ docToggle'.key \in DOMAIN docsState'
          /\ docsState'[docToggle'.key] = docToggle'.prevStatus
          /\ docToggle'.prevStatus = docsState[docToggle'.key]
             \/ docToggle.pc = "mutate"]_vars

\* C19: when the update sent by a toggle fails, the key's local status is
\* again what it was before the toggle, the failure notification is shown,
\* and no update is sent to the Record Store other than by a step of the user.
C19_FailedToggleReverts ==
    [][/\ docToggle.pc = "mutate" /\ docToggle'.pc # "done" =>
              /\ failureShown
              /\ docsState'[docToggle.key] = docToggle.prevStatus
       /\ requests' # requests => userActs]_vars


----------------------------------------------------------------------------
(* The Referrals page opened with a query string, and the URL changes and  *)
(* filter edits that follow.                                               *)

UrlPool ==
    { NoParams,
      [NoParams EXCEPT !.insurance = Some(<<"a", "e">>)],
      [NoParams EXCEPT !.stoplight_status = Some("red")],
      [NoParams EXCEPT !.insurance = Some(<<"B", "c">>), !.region = Some("West"),
                       !.archive_status = Some("archived")],
      [NoParams EXCEPT !.dateStart = Some(2), !.dateEnd = Some(3),
                       !.rep = Some("Kim")] }

UrlAdvancedPool ==
    { [EmptyAdvanced EXCEPT !.insurance = Some(<<"a", "e">>)],
      [EmptyAdvanced EXCEPT !.payer_region = Some("East"), !.rep_name = Some("Lee")],
      [EmptyAdvanced EXCEPT !.dateStart = Some(1)] }

\* the state after mount: useState(() => searchParams.get('stoplight_status'))
\* and the first run of the effect on [searchParams]
InitUrl ==
    /\ InitOther
    /\ InitRest
    /\ allOrders = None
    /\ searchParams \in UrlPool
    /\ activeFilters = <<>>
    /\ stoplightFilter = searchParams.stoplight_status
    /\ advancedFilters =
           searchParamsEffect(searchParams, EmptyAdvanced, None).advancedFilters
    /\ debouncedTerm = None
    /\ tz = 0

NextUrl ==
    \/ \E params \in UrlPool : NavigateUrl(params)
    \/ \E filters \in UrlAdvancedPool : onApply(filters)
    \/ onClear
    \/ \E status \in StoplightOptions : onStoplightFilterChange(status)
    \/ \E newFilter \in ArchiveOptions : handleArchiveFilterChange(newFilter)
    \/ clearAllFilters

SpecUrl == InitUrl /\ [][NextUrl]_vars

\* the archive mode is the one of the URL, 'active' standing for no parameter
archiveInSync ==
    \/ searchParams.archive_status = Some(archiveFilter)
    \/ searchParams.archive_status = None /\ archiveFilter = "active"

\* C20: on the Referrals page each of the parameters insurance, dateStart,
\* dateEnd, region, rep and stoplight_status is in the URL with value v exactly
\* when the filter it stands for holds v, and archive_status names the archive
\* mode in force.
C20_UrlFilterSync ==
    /\ searchParams.insurance = advancedFilters.insurance
    /\ searchParams.dateStart = advancedFilters.dateStart
    /\ searchParams.dateEnd = advancedFilters.dateEnd
    /\ searchParams.region = advancedFilters.payer_region
    /\ searchParams.rep = advancedFilters.rep_name
    /\ searchParams.stoplight_status = stoplightFilter
    /\ archiveInSync

\* what does hold: after a change of the URL the filters hold the value of
\* every parameter that is present, and the archive mode follows the URL
presentParamsApplied ==
    /\ [][searchParams' # searchParams =>
             /\ Truthy(searchParams'.insurance) =>
                    advancedFilters'.insurance = searchParams'.insurance
             /\ searchParams'.dateStart # None =>
                    advancedFilters'.dateStart = searchParams'.dateStart
             /\ searchParams'.dateEnd # None =>
                    advancedFilters'.dateEnd = searchParams'.dateEnd
             /\ searchParams'.region # None =>
                    advancedFilters'.payer_region = searchParams'.region
             /\ searchParams'.rep # None =>
                    advancedFilters'.rep_name = searchParams'.rep
             /\ searchParams'.stoplight_status # None =>
                    stoplightFilter' = searchParams'.stoplight_status]_vars
    /\ []archiveInSync


----------------------------------------------------------------------------
(* Referrals page: archive / restore and permanent delete of one referral. *)

\* the names the module of the Referrals page binds by import
ReferralsImports ==
    {"React", "useState", "useEffect", "useMemo", "useQuery", "useQueryClient",
     "useSearchParams", "supabase", "useMediaQuery", "useDebounce",
     "PatientDrawerAdaptive", "StageChangeModal", "SimpleConfirmationModal",
     "ReferralsListMobile", "ReferralGrid", "workflowData", "toast",
     "ReferralFilterBar", "Loader2", "useSearch", "EmptyState",
     "MassUpdateModal", "BulkActionsFooter", "useAuth", "useUIState",
     "MassDocUpdateModal", "AdvancedFilterPanel", "generatePatientSnapshotPDF",
     "useExportCenter", "apiAddNote", "isBackward"}

\* evaluating an identifier that the module does not bind throws a
\* ReferenceError
throwsReferenceError(name) == name \notin ReferralsImports

\* the parts of the state the two confirmations leave alone
confirmFrame ==
    UNCHANGED <<filterVars, selectedOrderIds, regressions, showStageModal,
                showMassUpdateModal, stageSave, massUpdate, detail,
                showDetailStageModal, kpiVars, dashboardVars, trendVars,
                patientsVars, memo, queryVars, bulkVars, docVars, raceVars>>

\* handleArchiveClick
handleArchiveClick(order) ==
    /\ route = "referrals"
    /\ archiveConfirm.pc \in {"idle", "done", "failed"}
    /\ selectedOrder' = Some(order)
    /\ showArchiveModal' = TRUE
    /\ UNCHANGED <<db, patient_notes, toasts, invalidated, ops, requests,
                   archiveConfirm, orderToDelete, isDeleting, deleteConfirm>>
    /\ confirmFrame

\* !selectedOrder.is_archived
newStatusOf(order) == order.is_archived # Some(TRUE)

\* update({ is_archived: newStatus }).eq('id', id)
updateArchived(rows, id, newStatus) ==
    [i \in DOMAIN rows |->
        IF rows[i].id = id THEN [rows[i] EXCEPT !.is_archived = Some(newStatus)]
        ELSE rows[i]]

\* handleArchiveConfirm up to its first await: the update request is sent
handleArchiveConfirm ==
    /\ showArchiveModal
    /\ selectedOrder # None
    /\ archiveConfirm.pc \in {"idle", "done", "failed"}
    /\ ops < MaxOps
    /\ ops' = ops + 1
    /\ archiveConfirm' = [pc |-> "update", op |-> ops + 1,
                          order |-> selectedOrder[1],
                          newStatus |-> newStatusOf(selectedOrder[1])]
    /\ requests' = Append(requests,
           request("handleArchiveConfirm", ops + 1, "orders", "update",
                   <<selectedOrder[1].id>>))
    /\ UNCHANGED <<db, patient_notes, toasts, invalidated, selectedOrder,
                   showArchiveModal, orderToDelete, isDeleting, deleteConfirm>>
    /\ confirmFrame

\* the update request failed: the toast, then the modal is closed
ArchiveConfirmFail ==
    /\ archiveConfirm.pc = "update"
    /\ toasts' = Append(toasts,
           toast(<<"Failed to archive or restore referral.",
                   archiveConfirm.newStatus>>, "err"))
    /\ showArchiveModal' = FALSE
    /\ selectedOrder' = None
    /\ archiveConfirm' = [archiveConfirm EXCEPT !.pc = "failed"]
    /\ UNCHANGED <<db, patient_notes, invalidated, ops, requests,
                   orderToDelete, isDeleting, deleteConfirm>>
    /\ confirmFrame

\* the update request succeeded: the row is written and apiAddNote is called
ArchiveConfirmOk ==
    /\ archiveConfirm.pc = "update"
    /\ db' = updateArchived(db, archiveConfirm.order.id, archiveConfirm.newStatus)
    /\ archiveConfirm' = [archiveConfirm EXCEPT !.pc = "note"]
    /\ requests' = Append(requests,
           request("handleArchiveConfirm", archiveConfirm.op, "patient_notes",
                   "insert", <<>>))
    /\ UNCHANGED <<patient_notes, toasts, invalidated, ops, selectedOrder,
                   showArchiveModal, orderToDelete, isDeleting, deleteConfirm>>
    /\ confirmFrame

\* apiAddNote returned: the toast, the invalidation, the modal is closed
ArchiveConfirmNoteDone ==
    /\ archiveConfirm.pc = "note"
    /\ patient_notes' = Append(patient_notes,
           [patient_id |-> archiveConfirm.order.patient_id,
            body |-> <<"Referral archived or restored.", archiveConfirm.newStatus>>,
            source |-> "manual"])
    /\ toasts' = Append(toasts,
           toast(<<"Referral archived or restored.", archiveConfirm.newStatus>>,
                 "ok"))
    /\ invalidated' = invalidated \cup {"referrals_direct_all"}
    /\ showArchiveModal' = FALSE
    /\ selectedOrder' = None
    /\ archiveConfirm' = [archiveConfirm EXCEPT !.pc = "done"]
    /\ UNCHANGED <<db, ops, requests, orderToDelete, isDeleting, deleteConfirm>>
    /\ confirmFrame

\* handleDeleteClick
handleDeleteClick(order) ==
    /\ route = "referrals"
    /\ orderToDelete' = Some(order)
    /\ UNCHANGED <<db, patient_notes, toasts, invalidated, ops, requests,
                   selectedOrder, showArchiveModal, archiveConfirm, isDeleting,
                   deleteConfirm>>
    /\ confirmFrame

\* handleDeleteConfirm up to its first await: the procedure call is sent
handleDeleteConfirm ==
    /\ orderToDelete # None
    /\ deleteConfirm.pc # "rpc"
    /\ ops < MaxOps
    /\ ops' = ops + 1
    /\ isDeleting' = TRUE
    /\ deleteConfirm' = [pc |-> "rpc", op |-> ops + 1, order |-> orderToDelete[1]]
    /\ requests' = Append(requests,
           request("handleDeleteConfirm", ops + 1,
                   "delete_referral_and_dependents", "rpc",
                   <<orderToDelete[1].id>>))
    /\ UNCHANGED <<db, patient_notes, toasts, invalidated, selectedOrder,
                   showArchiveModal, archiveConfirm, orderToDelete>>
    /\ confirmFrame

\* the procedure call failed: the toast, then the two setters at the end
DeleteConfirmFail ==
    /\ deleteConfirm.pc = "rpc"
    /\ toasts' = Append(toasts, toast(<<"Failed to delete referral.">>, "err"))
    /\ isDeleting' = FALSE
    /\ orderToDelete' = None
    /\ deleteConfirm' = [deleteConfirm EXCEPT !.pc = "failed"]
    /\ UNCHANGED <<db, patient_notes, invalidated, ops, requests, selectedOrder,
                   showArchiveModal, archiveConfirm>>
    /\ confirmFrame

\* delete_referral_and_dependents(p_order_id)
deleteReferral(rows, id) == SelectSeq(rows, LAMBDA o : o.id # id)

\* the procedure call succeeded: the row is gone, the toast is shown, and the
\* handler goes on to writeAuditLog(...), a name the module does not import:
\* the call throws, the promise of the handler rejects, and the statements
\* after it (invalidateAndRefetch, setIsDeleting, setOrderToDelete) do not run
DeleteConfirmOk ==
    /\ deleteConfirm.pc = "rpc"
    /\ db' = deleteReferral(db, deleteConfirm.order.id)
    /\ toasts' = Append(toasts,
           toast(<<"Referral permanently deleted.">>, "ok"))
    /\ deleteConfirm' =
           [deleteConfirm EXCEPT
               !.pc = IF throwsReferenceError("writeAuditLog") THEN "thrown"
                      ELSE "audit"]
    /\ UNCHANGED <<patient_notes, invalidated, ops, requests, selectedOrder,
                   showArchiveModal, archiveConfirm, orderToDelete, isDeleting>>
    /\ confirmFrame

\* SimpleConfirmationModal onClose of the delete confirmation
closeDeleteConfirm ==
    /\ orderToDelete # None
    /\ orderToDelete' = None
    /\ UNCHANGED <<db, patient_notes, toasts, invalidated, ops, requests,
                   selectedOrder, showArchiveModal, archiveConfirm, isDeleting,
                   deleteConfirm>>
    /\ confirmFrame

----------------------------------------------------------------------------
(* The mutations of the Referrals page and the refetch of its list. *)

\* the list query is fetched at mount and again when it is invalidated
Refetch ==
    /\ route = "referrals"
    /\ allOrders = None \/ "referrals_direct_all" \in invalidated
    /\ FetchResolve(db)

MaxMutateOrders == 1

InitMutate ==
    /\ InitStage
    /\ route = "referrals"
    /\ Len(db) <= MaxMutateOrders

NextMutate ==
    \/ Refetch
    \/ LET view == orders
       IN  \E i \in DOMAIN view : handleStageChangeClick(view[i])
    \/ \E payload \in StagePayloads(IF selectedOrder = None THEN None
                                    ELSE selectedOrder[1].workflow_stage) :
           handleStageSave(payload)
    \/ StageSaveUpdateFail("referrals")
    \/ StageSaveUpdateOk("referrals")
    \/ StageSaveNoteDone("referrals")
    \/ \E ok \in BOOLEAN : StageSaveInsertDone("referrals", ok)
    \/ LET view == orders
       IN  \E i \in DOMAIN view : handleArchiveClick(view[i])
    \/ handleArchiveConfirm
    \/ ArchiveConfirmFail
    \/ ArchiveConfirmOk
    \/ ArchiveConfirmNoteDone
    \/ LET view == orders
       IN  \E i \in DOMAIN view : handleDeleteClick(view[i])
    \/ closeDeleteConfirm
    \/ handleDeleteConfirm
    \/ DeleteConfirmFail
    \/ DeleteConfirmOk
    \/ LET view == orders
       IN  \E i \in DOMAIN view : handleToggleSelection(view[i].id)
    \/ openMassUpdateModal
    \/ \E payload \in MassPayloads : handleMassStageUpdate(payload)
    \/ MassUpdateFail
    \/ MassUpdateOk
    \/ \E ok \in BOOLEAN : MassUpdateNotesDone(ok)
    \/ openMassDocUpdateModal
    \/ \E payload \in MassDocPayloads : handleMassDocUpdate(payload)
    \/ \E ok \in BOOLEAN : MassDocUpdateSettle(ok)

SpecMutate == InitMutate /\ [][NextMutate]_vars


----------------------------------------------------------------------------
(* Mutation, then refetch. *)

\* the positions at which a handler has run to its end
Ended == {"done", "failed", "thrown"}

\* this step is the last one of the handler whose record goes from h to hNext
settles(h, hNext) == h.pc # hNext.pc /\ hNext.pc \in Ended

\* the last step of a handler whose request succeeded invalidates the
\* referrals query, that of a handler whose request failed does not
invalidationFollows(h, hNext) ==
    settles(h, hNext) =>
        IF hNext.pc = "failed" THEN invalidated' = invalidated
        ELSE "referrals_direct_all" \in invalidated'

\* C21: every successful mutation of the Referrals page (single stage save,
\* archive / restore, permanent delete, mass stage update, mass document
\* update) ends with an invalidation of the referrals query; a mutation whose
\* request failed triggers no invalidation.
C21_MutationThenRefetch ==
    [][/\ invalidationFollows(stageSave["referrals"], stageSave'["referrals"])
       /\ invalidationFollows(archiveConfirm, archiveConfirm')
       /\ invalidationFollows(deleteConfirm, deleteConfirm')
       /\ invalidationFollows(massUpdate, massUpdate')
       /\ invalidationFollows(massDocUpdate, massDocUpdate')]_vars

\* the same for the four mutations other than the permanent delete
invalidationFollowsButDelete ==
    [][/\ invalidationFollows(stageSave["referrals"], stageSave'["referrals"])
       /\ invalidationFollows(archiveConfirm, archiveConfirm')
       /\ invalidationFollows(massUpdate, massUpdate')
       /\ invalidationFollows(massDocUpdate, massDocUpdate')]_vars

\* C22: once a permanent-delete confirmation has run to its end, whether the
\* backend call succeeded or failed, isDeleting is false and orderToDelete is
\* null.
C22_DeleteConfirmationEnds ==
    [][settles(deleteConfirm, deleteConfirm') =>
           /\ isDeleting' = FALSE
           /\ orderToDelete' = None]_vars

\* the confirmation whose backend call failed does end that way
failedDeleteEnds ==
    [][(settles(deleteConfirm, deleteConfirm') /\ deleteConfirm'.pc = "failed") =>
           /\ isDeleting' = FALSE
           /\ orderToDelete' = None]_vars


----------------------------------------------------------------------------
(* Readiness of a referral, as the patient details show it. *)

\* the count taken over every required key that has any status in the map
readinessOfAnyStatus(patient, order) ==
    LET required == IF patient.required_documents = None THEN <<>>
                    ELSE patient.required_documents[1]
        completed ==
            Cardinality({i \in DOMAIN required :
                            /\ order # None
                            /\ order[1].document_status # None
                            /\ required[i] \in DOMAIN order[1].document_status[1]})
    IN  IF Len(required) = 0
        THEN [completedCount |-> 0, totalRequired |-> 0, hasMissing |-> FALSE]
        ELSE [completedCount |-> completed, totalRequired |-> Len(required),
              hasMissing |-> completed < Len(required)]

\* ViewPatientDetails: completedCount, totalRequired and hasMissing of a
\* patient and the (nullable) order shown with it
readinessOf(patient, order) ==
    LET required == IF patient.required_documents = None THEN <<>>
                    ELSE patient.required_documents[1]
        completed ==
            Cardinality({i \in DOMAIN required :
                            order # None /\ isComplete(order[1], required[i])})
    IN  IF Len(required) = 0
        THEN [completedCount |-> 0, totalRequired |-> 0, hasMissing |-> FALSE]
        ELSE [completedCount |-> completed, totalRequired |-> Len(required),
              hasMissing |-> completed < Len(required)]

\* the referral of the scenario: FACE and CMN required, FACE alone Complete
isScenarioReferral(o) ==
    /\ o.patients # None
    /\ o.patients[1].required_documents # None
    /\ Range(o.patients[1].required_documents[1]) = {"FACE", "CMN"}
    /\ Len(o.patients[1].required_documents[1]) = 2
    /\ o.document_status = Some([FACE |-> "Complete"])

\* the required keys of a referral whose status is Complete
completeRequired(o) ==
    {i \in DOMAIN requiredOf(o) : statusIsComplete(o, requiredOf(o)[i])}

\* C23 as stated: readiness is Complete required documents out of required
\* documents; the referral with FACE and CMN required and FACE alone
\* Complete shows 1 / 2 with hasMissing true, and the document filter with
\* status Complete rejects it whichever of its required keys the filter names.
C23_ReadinessAndCompleteFilter ==
    LET view == orders
    IN
    allOrders # None =>
        \A j \in DOMAIN allOrders[1] :
            LET o == allOrders[1][j]
            IN  isScenarioReferral(o) =>
                    /\ readinessOf(o.patients[1], Some(o)) =
                           [completedCount |-> 1, totalRequired |-> 2,
                            hasMissing |-> TRUE]
                    /\ \A k \in {"FACE", "CMN"} :
                           /\ ~docFilterKeep(o, Some(k), Some("Complete"))
                           /\ docFilterApplied(k, "Complete")
                                  => o \notin Range(view)

\* C23, amended: readiness is Complete required documents out of required
\* documents, hasMissing being true exactly when some required document is
\* not Complete; the document filter with status Complete keeps a referral
\* exactly when the status of the key it names is Complete, so the referral
\* of the scenario shows 1 / 2 with hasMissing true, is rejected by the
\* filter that names CMN and is kept by the filter that names FACE.
C23_ReadinessAndCompleteFilterPerKey ==
    LET view == orders
    IN
    allOrders # None =>
        \A j \in DOMAIN allOrders[1] :
            LET o == allOrders[1][j]
            IN  o.patients # None =>
                    LET shown == readinessOf(o.patients[1], Some(o))
                    IN  /\ shown.totalRequired = Len(requiredOf(o))
                        /\ shown.completedCount = Cardinality(completeRequired(o))
                        /\ shown.hasMissing <=>
                               \E i \in DOMAIN requiredOf(o) :
                                   ~statusIsComplete(o, requiredOf(o)[i])
                        /\ \A k \in DocKeys :
                               /\ docFilterKeep(o, Some(k), Some("Complete"))
                                      <=> statusIsComplete(o, k)
                               /\ docFilterApplied(k, "Complete") =>
                                      (o \in Range(view) <=> statusIsComplete(o, k))
                        /\ isScenarioReferral(o) =>
                               /\ shown = [completedCount |-> 1,
                                           totalRequired |-> 2,
                                           hasMissing |-> TRUE]
                               /\ ~docFilterKeep(o, Some("CMN"), Some("Complete"))
                               /\ docFilterKeep(o, Some("FACE"), Some("Complete"))

\* the referral of the scenario is listed under the Complete filter that
\* names FACE
C23_Witness ==
    LET view == orders
    IN
    /\ allOrders # None
    /\ docFilterApplied("FACE", "Complete")
    /\ \E j \in DOMAIN allOrders[1] :
           /\ isScenarioReferral(allOrders[1][j])
           /\ allOrders[1][j] \in Range(view)
           /\ readinessOf(allOrders[1][j].patients[1],
                          Some(allOrders[1][j])).hasMissing


----------------------------------------------------------------------------
(* The archive mode of the Referrals page on its own. *)

MaxArchiveOrders == 2

\* URLs with every recognised value of archive_status, none, and values
\* that are not among the three
ArchiveUrlPool ==
    { [NoParams EXCEPT !.archive_status = a] :
          a \in {None, Some("active"), Some("archived"), Some("all"),
                 Some("Archived"), Some("")} }

InitArchive ==
    /\ InitOther
    /\ InitRest
    /\ allOrders = None
    /\ searchParams \in ArchiveUrlPool
    /\ activeFilters = <<>>
    /\ stoplightFilter = None
    /\ advancedFilters = EmptyAdvanced
    /\ debouncedTerm = None
    /\ tz = 0

NextArchive ==
    \/ \E data \in Collections(OrderPool, MaxArchiveOrders) : FetchResolve(data)
    \/ \E params \in ArchiveUrlPool : NavigateUrl(params)
    \/ \E newFilter \in ArchiveOptions : handleArchiveFilterChange(newFilter)
    \/ \E filter \in Range(filterOptions) : onToggleFilter(filter)

SpecArchive == InitArchive /\ [][NextArchive]_vars

\* no filter other than the archive mode is set
onlyArchiveMode ==
    /\ ~Truthy(accountFilter)
    /\ activeFilters = <<>>
    /\ stoplightFilter = None
    /\ ~isAdvancedFilterActive(advancedFilters)
    /\ ~Truthy(debouncedTerm)

\* the list the page produces from the fetched referrals under a mode
resultFor(mode) ==
    sort(filterOrders(allOrders[1], mode, accountFilter, activeFilters,
                      stoplightFilter, advancedFilters, debouncedTerm, tz))

\* the archive_status parameter is one of the three modes
recognised ==
    /\ searchParams.archive_status # None
    /\ searchParams.archive_status[1] \in ArchiveOptions

\* C24: with no other filter active the results for 'active' and 'archived'
\* are disjoint and together hold exactly the referrals of the result for
\* 'all'; a referral whose is_archived is null is treated as active; an absent
\* or unrecognised archive_status behaves as 'active'; the archive criterion
\* does not depend on the workflow stage.
C24_ArchivePartition ==
    LET view == orders
    IN
    (allOrders # None /\ onlyArchiveMode) =>
        /\ Range(resultFor("active")) \cap Range(resultFor("archived")) = {}
        /\ Range(resultFor("active")) \cup Range(resultFor("archived"))
               = Range(resultFor("all"))
        /\ Len(resultFor("active")) + Len(resultFor("archived"))
               = Len(resultFor("all"))
        /\ Range(resultFor("all")) = Range(allOrders[1])
        /\ \A j \in DOMAIN allOrders[1] :
               LET o == allOrders[1][j]
               IN  /\ o.is_archived \in {None, Some(FALSE)}
                       => /\ o \in Range(resultFor("active"))
                          /\ o \notin Range(resultFor("archived"))
                   /\ \A mode \in ArchiveOptions :
                      \A stage \in {None} \cup {Some(s) : s \in Range(workflowStages)} :
                          archiveKeep([o EXCEPT !.workflow_stage = stage], mode)
                              = archiveKeep(o, mode)
        /\ view = resultFor(IF recognised THEN searchParams.archive_status[1]
                            ELSE "active")

\* a referral with a null flag is listed, and an archived one is not, under a
\* URL whose archive_status is not one of the three modes
C24_Witness ==
    LET view == orders
    IN
    /\ allOrders # None
    /\ onlyArchiveMode
    /\ searchParams.archive_status = Some("Archived")
    /\ \E i, j \in DOMAIN allOrders[1] :
           /\ allOrders[1][i].is_archived = None
           /\ allOrders[1][i] \in Range(view)
           /\ allOrders[1][j].is_archived = Some(TRUE)
           /\ allOrders[1][j] \notin Range(view)


----------------------------------------------------------------------------
(* The optimistic toggle and its Undo. *)

\* 'Complete' for complete, 'Missing' for missing
storedStatus(status) == IF status = "complete" THEN "Complete" ELSE "Missing"

\* the document_status of the referral shown, as the Record Store holds it
storedDocumentStatus(rows) ==
    LET id == detail[1].order[1].id
        i == CHOOSE i \in DOMAIN rows : rows[i].id = id
    IN  IF rows[i].document_status = None THEN <<>>
        ELSE rows[i].document_status[1]

\* C25: a toggle sets the local status of its key to the new value before the
\* request is acknowledged; on acknowledgment the value stays; Undo afterwards
\* sets the local status of the key back to its value before the toggle,
\* leaves the local status of every other key unchanged, and issues exactly
\* one mutation, which writes the previous status for that key.
C25_OptimisticToggleWithUndo ==
    [][/\ (docToggle.pc # "mutate" /\ docToggle'.pc = "mutate") =>
              /\ docToggle'.nextStatus # docsState[docToggle'.key]
              /\ docToggle'.prevStatus = docsState[docToggle'.key]
              /\ docsState' = [docsState EXCEPT ![docToggle'.key] =
                                                    docToggle'.nextStatus]
              /\ db' = db
       /\ (docToggle.pc = "mutate" /\ docToggle'.pc = "done") =>
              /\ docsState' = docsState
              /\ docsState[docToggle.key] = docToggle.nextStatus
              /\ storedDocumentStatus(db')[docToggle.key]
                     = storedStatus(docToggle.nextStatus)
       /\ (docToggle.pc = "done" /\ docToggle'.pc = "undo") =>
              /\ docsState' = [docsState EXCEPT ![docToggle.key] =
                                                    docToggle.prevStatus]
              /\ Len(requests') = Len(requests) + 1
              /\ requests'[Len(requests')] =
                     request("undo", docToggle.op, "orders", "update",
                             <<detail[1].order[1].id>>)
       /\ (docToggle.pc = "undo" /\ docToggle'.pc = "settled") =>
              /\ requests' = requests
              /\ docsState' = docsState
              /\ db' # db =>
                     storedDocumentStatus(db')[docToggle.key]
                         = storedStatus(docToggle.prevStatus)]_vars

\* Undo was invoked after the acknowledgment and its mutation was
\* acknowledged too: the Record Store holds the previous status again
C25_Witness ==
    /\ docToggle.pc = "settled"
    /\ \E i \in DOMAIN toasts : toasts[i].kind = "ok"
    /\ Len(requests) = 2
    /\ requests[2].by = "undo"
    /\ docsState[docToggle.key] = docToggle.prevStatus
    /\ docToggle.key \in DOMAIN storedDocumentStatus(db)
    /\ storedDocumentStatus(db)[docToggle.key] = storedStatus(docToggle.prevStatus)
    /\ \E k \in DOMAIN docsState : k # docToggle.key


----------------------------------------------------------------------------
(* Toggles of several keys of one referral whose requests are in flight    *)
(* together.                                                               *)

MaxToggles == 2

\* the parts of the state these steps leave alone
raceFrame ==
    UNCHANGED <<filterVars, selectedOrderIds, regressions, patient_notes,
                selectedOrder, showStageModal, showMassUpdateModal, stageSave,
                massUpdate, detail, showDetailStageModal, kpiVars,
                dashboardVars, trendVars, patientsVars, memo, queryVars,
                bulkVars, confirmVars, docToggle>>

\* DocRow is disabled while the mutation of its key is pending
isToggling(key) ==
    /\ key \in DOMAIN docMutations
    /\ docMutations[key].pc \in {"mutate", "undo"}

\* toggle(key) up to the await of mutateAsync, with an order: the optimistic
\* update, and mutationFn builds the whole map from the order of the props
\* and sends it
toggleKey(key) ==
    /\ detail # None
    /\ detail[1].order # None
    /\ key \in DOMAIN docsState
    /\ ~isToggling(key)
    /\ ops < MaxToggles
    /\ ops' = ops + 1
    /\ LET prevStatus == docsState[key]
           nextStatus == IF prevStatus = "complete" THEN "missing" ELSE "complete"
           order == detail[1].order[1]
       IN  /\ docsState' = [docsState EXCEPT ![key] = nextStatus]
           /\ docMutations' =
                  (key :> [pc |-> "mutate", op |-> ops + 1,
                           prevStatus |-> prevStatus, nextStatus |-> nextStatus,
                           id |-> order.id,
                           document_status |-> updatedStatus(order, key, nextStatus)])
                      @@ docMutations
           /\ requests' = Append(requests,
                  request("toggle", ops + 1, "orders", "update", <<order.id>>))
    /\ UNCHANGED <<db, invalidated, toasts>>
    /\ raceFrame

\* the update of a key was acknowledged: the row is written, onSuccess
\* invalidates, the toast is shown
MutationAcknowledged(key) ==
    /\ key \in DOMAIN docMutations
    /\ docMutations[key].pc = "mutate"
    /\ db' = updateDocumentStatus(db, docMutations[key].id,
                                  docMutations[key].document_status)
    /\ invalidated' = invalidated \cup docInvalidations
    /\ toasts' = Append(toasts,
           toast(<<"marked", key, docMutations[key].nextStatus>>, "ok"))
    /\ docMutations' = [docMutations EXCEPT ![key].pc = "done"]
    /\ UNCHANGED <<docsState, ops, requests>>
    /\ raceFrame

\* the update of a key failed: the catch block runs undo(), whose mutation
\* builds its map from the order of the props of that moment, and shows the
\* toast
MutationRejected(key) ==
    /\ key \in DOMAIN docMutations
    /\ docMutations[key].pc = "mutate"
    /\ docsState' = (key :> docMutations[key].prevStatus) @@ docsState
    /\ toasts' = Append(toasts, toast(<<"Update failed">>, "err"))
    /\ IF detail[1].order = None
       THEN /\ docMutations' = [docMutations EXCEPT ![key].pc = "settled"]
            /\ UNCHANGED requests
       ELSE /\ docMutations' =
                   [docMutations EXCEPT
                       ![key].pc = "undo",
                       ![key].id = detail[1].order[1].id,
                       ![key].document_status =
                           updatedStatus(detail[1].order[1], key,
                                         docMutations[key].prevStatus)]
            /\ requests' = Append(requests,
                   request("undo", docMutations[key].op, "orders", "update",
                           <<detail[1].order[1].id>>))
    /\ UNCHANGED <<db, invalidated, ops>>
    /\ raceFrame

\* the update sent by undo() was answered
UndoAnswered(key, ok) ==
    /\ key \in DOMAIN docMutations
    /\ docMutations[key].pc = "undo"
    /\ IF ok
       THEN /\ db' = updateDocumentStatus(db, docMutations[key].id,
                                          docMutations[key].document_status)
            /\ invalidated' = invalidated \cup docInvalidations
       ELSE UNCHANGED <<db, invalidated>>
    /\ docMutations' = [docMutations EXCEPT ![key].pc = "settled"]
    /\ UNCHANGED <<docsState, toasts, ops, requests>>
    /\ raceFrame

InitRace == InitToggle

NextRace ==
    \/ \E patient \in TogglePatients : RenderDocumentationRequirements(patient)
    \/ \E key \in DocKeys : toggleKey(key)
    \/ \E key \in DocKeys : MutationAcknowledged(key)
    \/ \E key \in DocKeys : MutationRejected(key)
    \/ \E key \in DocKeys, ok \in BOOLEAN : UndoAnswered(key, ok)

SpecRace == InitRace /\ [][NextRace]_vars

\* the document_status the Record Store holds for a referral
storedFor(id) ==
    LET i == CHOOSE i \in DOMAIN db : db[i].id = id
    IN  IF db[i].document_status = None THEN <<>> ELSE db[i].document_status[1]

\* the Record Store holds the value the toggle of this key asked for
holdsNewValue(key) ==
    /\ key \in DOMAIN storedFor(docMutations[key].id)
    /\ storedFor(docMutations[key].id)[key]
           = storedStatus(docMutations[key].nextStatus)

\* C26: when two different keys of one referral have been toggled and both
\* requests are acknowledged, in whatever order the requests and the refetch
\* took place, the stored document_status holds the new value for both keys.
C26_TogglesNotLost ==
    \A k1, k2 \in DOMAIN docMutations :
        (/\ k1 # k2
         /\ docMutations[k1].pc = "done"
         /\ docMutations[k2].pc = "done"
         /\ docMutations[k1].id = docMutations[k2].id)
            => holdsNewValue(k1) /\ holdsNewValue(k2)

\* the value of the toggle acknowledged last is stored
lastAcknowledgedStored ==
    [][\A key \in DocKeys :
           (/\ key \in DOMAIN docMutations
            /\ docMutations[key].pc = "mutate"
            /\ docMutations'[key].pc = "done") => holdsNewValue(key)']_vars


----------------------------------------------------------------------------
(* The selection of the Referrals page under row toggles, Select All,      *)
(* filter changes, mutations and refetches.                                *)

InitSelect == InitMutate

NextSelect ==
    \/ Refetch
    \/ LET view == orders
       IN  \E i \in DOMAIN view : handleToggleSelection(view[i].id)
    \/ handleSelectAll
    \/ \E newFilter \in ArchiveOptions : handleArchiveFilterChange(newFilter)
    \/ \E filter \in Range(filterOptions) : onToggleFilter(filter)
    \/ LET view == orders
       IN  \E i \in DOMAIN view : handleArchiveClick(view[i])
    \/ handleArchiveConfirm
    \/ ArchiveConfirmFail
    \/ ArchiveConfirmOk
    \/ ArchiveConfirmNoteDone
    \/ openMassUpdateModal
    \/ \E payload \in MassPayloads : handleMassStageUpdate(payload)
    \/ MassUpdateFail
    \/ MassUpdateOk
    \/ \E ok \in BOOLEAN : MassUpdateNotesDone(ok)

SpecSelect == InitSelect /\ [][NextSelect]_vars

\* the ids of the referrals of the displayed list
displayedIds ==
    LET view == orders
    IN  {view[i].id : i \in DOMAIN view}

\* a filter criterion of the page is not what it was
filterChanged ==
    \/ archiveFilter' # archiveFilter
    \/ accountFilter' # accountFilter
    \/ activeFilters' # activeFilters
    \/ debouncedTerm' # debouncedTerm
    \/ advancedFilters' # advancedFilters
    \/ stoplightFilter' # stoplightFilter

\* C27: in every reachable state of the Referrals page every selected order
\* id is the id of a referral of the displayed list, and any change of a
\* filter criterion empties the selection.
C27_SelectionWithinView ==
    /\ [](Range(selectedOrderIds) \subseteq displayedIds)
    /\ [][filterChanged => selectedOrderIds' = <<>>]_vars

\* the second half on its own
filterChangeEmptiesSelection ==
    [][filterChanged => selectedOrderIds' = <<>>]_vars


----------------------------------------------------------------------------
(* Clear All, from every URL and filter state of the Referrals page. *)

ClearUrlPool ==
    UrlPool \cup
    { [NoParams EXCEPT !.account = Some(a)] : a \in AccountPool } \cup
    { [NoParams EXCEPT !.account = Some(a), !.stoplight_status = Some("yellow"),
                       !.archive_status = Some("all")] : a \in AccountPool }

InitClear ==
    /\ InitOther
    /\ InitRest
    /\ allOrders = None
    /\ searchParams \in ClearUrlPool
    /\ activeFilters = <<>>
    /\ stoplightFilter = searchParams.stoplight_status
    /\ advancedFilters =
           searchParamsEffect(searchParams, EmptyAdvanced, None).advancedFilters
    /\ debouncedTerm = None
    /\ tz = 0

NextClear ==
    \/ \E params \in ClearUrlPool : NavigateUrl(params)
    \/ \E filters \in UrlAdvancedPool : onApply(filters)
    \/ \E status \in StoplightOptions : onStoplightFilterChange(status)
    \/ \E newFilter \in ArchiveOptions : handleArchiveFilterChange(newFilter)
    \/ \E filter \in Range(filterOptions) : onToggleFilter(filter)
    \/ clearAllFilters

SpecClear == InitClear /\ [][NextClear]_vars

\* C28: from any state of the Referrals page, after Clear All and its
\* effects, the selected stage set is empty, the advanced filter object is
\* empty, the stoplight filter is null, the account filter is null and the
\* archive mode is 'active'.
C28_ClearAllClearsEverything ==
    [][clearAllFilters =>
           /\ activeFilters' = <<>>
           /\ advancedFilters' = EmptyAdvanced
           /\ stoplightFilter' = None
           /\ accountFilter' = None
           /\ archiveFilter' = "active"]_vars

\* Clear All but for the stoplight filter, which is null afterwards only when
\* the URL has no stoplight_status or Clear All left the URL as it was
clearAllButStoplight ==
    [][clearAllFilters =>
           /\ activeFilters' = <<>>
           /\ advancedFilters' = EmptyAdvanced
           /\ accountFilter' = None
           /\ archiveFilter' = "active"
           /\ stoplightFilter' =
                  IF searchParams' # searchParams
                  THEN searchParams.stoplight_status ELSE None]_vars


----------------------------------------------------------------------------
(* The single stage save whose update request fails. *)

\* the requests an invocation of a handler has sent
sentByInvocation(op) == SelectSeq(requests, LAMBDA r : r.op = op)

\* C29: when the order update of a single stage save fails, on either page,
\* no patient note and no regression record are inserted, no query is
\* invalidated, the stage modal stays open with the same selected order, and
\* exactly one failure toast is shown.
C29_FailedStageSaveChangesNothing ==
    [][\A page \in Pages :
           (stageSave[page].pc = "update" /\ stageSave'[page].pc = "failed") =>
               /\ db' = db
               /\ patient_notes' = patient_notes
               /\ regressions' = regressions
               /\ invalidated' = invalidated
               /\ showStageModal' = showStageModal
               /\ selectedOrder' = selectedOrder
               /\ showDetailStageModal' = showDetailStageModal
               /\ detail' = detail
               /\ toasts' = Append(toasts,
                      toast(<<"Failed to update stage.">>, "err"))
               /\ requests' = requests
               /\ Len(sentByInvocation(stageSave[page].op)) = 1
               /\ sentByInvocation(stageSave[page].op)[1].to = "orders"]_vars

\* the save of the Referrals page has failed: its modal is open on the order
\* it was opened for, one failure toast is up, nothing was inserted
C29_Witness ==
    /\ stageSave["referrals"].pc = "failed"
    /\ showStageModal
    /\ selectedOrder = Some(stageSave["referrals"].order)
    /\ Len(toasts) = 1
    /\ toasts[1].kind = "err"
    /\ patient_notes = <<>>
    /\ regressions = <<>>
    /\ invalidated = {}


----------------------------------------------------------------------------
(* The filter of the Patients page over patients with several referrals.   *)

PatientRowNoName == PatientRow(PatientNoName, None, None, Some("green"))

\* the referrals of PatientAl: the older one archived, the newer one not;
\* `updated` is the updated_at of the older one
AlOrderRows(updated) ==
    << OrderRow(1, PatientAl, Some(TRUE), Some(Preauthorization),
                Some(DateOfDay(3)), None, None, updated),
       OrderRow(2, PatientAl, Some(FALSE), Some(DocumentationVerification),
                Some(DateOfDay(2)), Some([FACE |-> "Complete"]), None, None) >>

PatientsDataPool ==
    { [patients |-> <<PatientRowBo, PatientRowAl, PatientRowAlUpper,
                      PatientRowNoName>>,
       orders |-> AlOrderRows(updated) \o
                  << OrderRow(3, PatientBo, Some(FALSE), Some(PatientIntake),
                              Some(DateOfDay(2)), None, Some(status), None) >>] :
          updated \in {None, Some(DateOfDay(5))},
          status \in {"Delivered", "Open"} }

PatientsAdvancedPool ==
    { EmptyAdvanced,
      [EmptyAdvanced EXCEPT !.workflowStage = Some(Preauthorization),
                            !.docFilterKey = Some("FACE"),
                            !.docFilterStatus = Some("Complete")],
      [EmptyAdvanced EXCEPT !.workflowStage = Some(DocumentationVerification),
                            !.docFilterKey = Some("FACE"),
                            !.docFilterStatus = Some("Complete")],
      [EmptyAdvanced EXCEPT !.dateStart = Some(3),
                            !.workflowStage = Some(DocumentationVerification)],
      [EmptyAdvanced EXCEPT !.dateStart = Some(2), !.dateEnd = Some(2)],
      [EmptyAdvanced EXCEPT !.workflowStage = Some(PatientIntake)] }

InitPatientsPage == InitPure /\ route = "patients"

NextPatientsPage ==
    \/ \E data \in PatientsDataPool : PatientsFetchResolve(data)
    \/ \E mode \in ArchiveOptions : setArchiveFilter(mode)
    \/ \E status \in StoplightOptions : setStoplightFilter(Some(status))
    \/ \E filters \in PatientsAdvancedPool : setAdvancedFilters(filters)
    \/ patientsClearAllFilters

SpecPatients == InitPatientsPage /\ [][NextPatientsPage]_vars

\* the referrals of a patient among the fetched ones
referralsOf(patient) ==
    {r \in Range(allData[1].orders) : r.patient_id = Some(patient.id)}

\* the referrals of a patient than which none was updated (or, never
\* updated, created) later
mostRecentlyUpdated(patient) ==
    {r \in referralsOf(patient) :
        \A other \in referralsOf(patient) : touchedAt(other) <= touchedAt(r)}

\* archived, or with one of the three closing statuses
closed(r) ==
    \/ r.is_archived = Some(TRUE)
    \/ r.status \in {Some("Delivered"), Some("Closed"), Some("Archived")}

countsAsArchived(patient) ==
    \/ patient.archived = Some(TRUE)
    \/ \E r \in mostRecentlyUpdated(patient) : closed(r)

\* the referral-level criteria of the advanced filters that are active
referralCriteria(adv) ==
    (IF adv.dateStart # None \/ adv.dateEnd # None THEN {"dateRange"} ELSE {}) \cup
    (IF Truthy(adv.workflowStage) THEN {"workflowStage"} ELSE {}) \cup
    (IF adv.docFilterKey # None /\ adv.docFilterStatus # None
     THEN {"document"} ELSE {})

\* one referral against one criterion
satisfies(patient, r, criterion, adv) ==
    IF criterion = "dateRange"
    THEN dateStartKeep(r, adv.dateStart) /\ dateEndKeep(r, adv.dateEnd, tz)
    ELSE IF criterion = "workflowStage"
    THEN r.workflow_stage = adv.workflowStage
    ELSE docStatusKeep(adv.docFilterKey[1] \in Range(requiredDocKeys(patient)),
                       statusIsComplete(r, adv.docFilterKey[1]),
                       adv.docFilterStatus[1])

====
